---- MODULE Spec2Model ----
(***************************************************************************)
(* Model of the mcdoc schema validation engine of TheShulkerBox/shulker:   *)
(*   - McdocValidator: validate_data and the cached get_mcdoc_schema and   *)
(*     get_dispatcher_schema         (src/src/lib/component_validation.py) *)
(*   - validate_data, resolve_schema_reference, create_schemas,            *)
(*     compare_versions, is_valid_with_attributes and the version pruning  *)
(*     validators                    (src/plugins/component_caching.py)    *)
(*   - ItemType.validate_component    (src/src/item/meta.py)               *)
(* One action applies one operation to inputs drawn from bounded sets and  *)
(* records the call and what it returned or raised.  The validator keeps   *)
(* the caches of its two cached methods from call to call; everything else *)
(* is a function of the arguments and of the schema corpus.                *)
(***************************************************************************)
EXTENDS Integers, Sequences, FiniteSets, TLC

VARIABLES op, args, ret, schema_cache, dispatcher_cache, decodes, doc,
          default_suberrors, memo, callers, item_class

vars == <<op, args, ret, schema_cache, dispatcher_cache, decodes, doc,
          default_suberrors, memo, callers, item_class>>

(***************************************************************************)
(* Bounds of the model.                                                    *)
(***************************************************************************)
\* Python's recursion limit, scaled down: deeper nesting of validate_data
\* calls ends in RecursionError.
MaxDepth == 6
\* Longest list document.
MaxLen == 2
\* Largest integer scalar of a document.
MaxInt == 2
\* Largest component and most components of a generated version string.
MaxVer == 1
MaxVerLen == 4
\* Most members of a generated union, fields of a generated struct and
\* attributes of a generated attribute list.
MaxMembers == 2
MaxFields == 2
MaxAttrs == 2
\* Most decodings of one corpus entry that are followed.
MaxDecodes == 2
\* Threads that share one validator.
MaxThreads == 2
\* Accesses of the components property of one item that are followed.
MaxAccesses == 3

(***************************************************************************)
(* JSON documents (type Json, component_caching.py:10).  A document is a   *)
(* tagged record; a dict is a function from its keys to documents.         *)
(* Python's bool is a subclass of int, which IsInt and IsNumber follow.    *)
(***************************************************************************)
JInt(n) == [t |-> "int", iv |-> n]
JStr(s) == [t |-> "str", sv |-> s]
JBool(b) == [t |-> "bool", bv |-> b]
\* A float, held as twice its value (so 1 is 0.5).
JFloat(h) == [t |-> "float", fv |-> h]
JNone == [t |-> "none"]
JList(q) == [t |-> "list", lv |-> q]
JDict(f) == [t |-> "dict", dv |-> f]

\* isinstance(data, int)
IsInt(d) == d.t \in {"int", "bool"}
\* isinstance(data, (int, float))
IsNumber(d) == d.t \in {"int", "bool", "float"}
\* Twice the numeric value of a number (True is 1, False is 0).
Twice(d) ==
    CASE d.t = "int" -> 2 * d.iv
      [] d.t = "bool" -> IF d.bv THEN 2 ELSE 0
      [] d.t = "float" -> d.fv
      [] OTHER -> 0

\* Optional values: None is <<>>, a present value v is <<v>>.
None == <<>>
Some(v) == <<v>>

(***************************************************************************)
(* Schema nodes (the classes of component_caching.py, as matched by        *)
(* validate_data).  kind "none" is a Schema whose root is None: a pruned   *)
(* or undecodable node.                                                    *)
(***************************************************************************)
Absent == [kind |-> "none"]
ReferenceSchema(p) == [kind |-> "reference", path |-> p]
UnionSchema(ms) == [kind |-> "union", members |-> ms]
ValueRange(lo, hi) == [min |-> lo, max |-> hi]
ListSchema(item, range) == [kind |-> "list", item |-> item, length_range |-> range]
IntArraySchema(range) == [kind |-> "int_array", length_range |-> range]
FloatArraySchema(range) == [kind |-> "float_array", length_range |-> range]
StringSchema == [kind |-> "string"]
IntSchema(range) == [kind |-> "int", value_range |-> range]
FloatSchema(range) == [kind |-> "float", value_range |-> range]
BooleanSchema == [kind |-> "boolean"]
ByteSchema == [kind |-> "byte"]
\* key_is_schema: the field's key is itself a Schema, not a string.
PairField(key, type, optional) ==
    [kind |-> "pair", key |-> key, key_is_schema |-> FALSE, type |-> type,
     optional |-> optional]
DynamicKeyPairField(type) ==
    [kind |-> "pair", key |-> "", key_is_schema |-> TRUE, type |-> type,
     optional |-> FALSE]
SpreadField(type) == [kind |-> "spread", type |-> type]
StructSchema(fields) == [kind |-> "struct", fields |-> fields]
DynamicIndex(accessor) == [kind |-> "dynamic", accessor |-> accessor]
StaticIndex(value) == [kind |-> "static", value |-> value]
DispatcherSchema(indices, registry) ==
    [kind |-> "dispatcher", parallel_indices |-> indices, registry |-> registry]

(***************************************************************************)
(* What a call returns or raises.  exc "none" is a normal return.  The     *)
(* fields are those of lib.errors.ValidationError (name, value, expected,  *)
(* suberrors, msg); path is the path attribute of the ValidationError of   *)
(* component_caching.py.                                                   *)
(***************************************************************************)
Result(exc, name, value, expected, sub, msg, path) ==
    [exc |-> exc, name |-> name, value |-> value, expected |-> expected,
     sub |-> sub, msg |-> msg, path |-> path]
Ok == Result("none", JNone, JNone, "", <<>>, <<>>, <<>>)
\* An exception of a Python built-in class (TypeError, IndexError, ...).
Raise(cls) == Result(cls, JNone, JNone, "", <<>>, <<>>, <<>>)
\* lib.errors.ValidationError(name, value, expected, suberrors, msg)
ValidationError(name, value, expected, sub, msg) ==
    Result("ValidationError", name, value, expected, sub, msg, <<>>)
\* lib.errors.MissingValidationError(name, value, expected)
MissingValidationError(name, value, expected) ==
    Result("MissingValidationError", name, value, expected, <<>>, <<>>, <<>>)
\* lib.errors.UnexpectedValidationError(name, value)
UnexpectedValidationError(name, value) ==
    Result("UnexpectedValidationError", name, value, "null", <<>>, <<>>, <<>>)
\* raise ValueError(f"StructSchema at '{path}' contains multiple SpreadFields ...")
SchemaDefinitionError(path) ==
    Result("ValueError", JNone, JNone, "", <<>>,
           <<"contains multiple SpreadFields, which is ambiguous", path>>, <<>>)

\* The classes derived from lib.errors.ValidationError.
ValidationErrorClasses ==
    {"ValidationError", "MissingValidationError", "UnexpectedValidationError"}

(***************************************************************************)
(* The schema corpus, ctx.meta["mcdoc"]: "mcdoc" maps a reference path to  *)
(* a raw definition, "mcdoc/dispatcher" maps a registry path to a mapping  *)
(* from discriminant to raw definition.  A raw definition either decodes   *)
(* (Schema.model_validate) to the schema it holds or is malformed.         *)
(***************************************************************************)
Raw(schema) == [malformed |-> FALSE, schema |-> schema]
Malformed == [malformed |-> TRUE, schema |-> Absent]

\* A struct whose schema holds two SpreadFields.
TwoSpreads == StructSchema(<<SpreadField(StringSchema), SpreadField(StringSchema)>>)

\* A schema for a recursive document shape: a tree refers to itself under
\* its key "b" and for every key it does not name, so each reference cycle
\* passes through a field of the struct.
TreeSchema ==
    StructSchema(<<PairField("b", ReferenceSchema("ref:tree"), TRUE),
                   PairField("a", IntSchema(None), TRUE),
                   SpreadField(ReferenceSchema("ref:tree"))>>)

McdocSchemas ==
    [p \in {"ref:int", "ref:str", "ref:bad", "ref:two_spreads", "ref:tree"} |->
        CASE p = "ref:int" -> Raw(IntSchema(None))
          [] p = "ref:str" -> Raw(StringSchema)
          [] p = "ref:two_spreads" -> Raw(TwoSpreads)
          [] p = "ref:tree" -> Raw(TreeSchema)
          [] OTHER -> Malformed]

\* Schema A of the registry: a zombie has a string "type" and an optional int "a".
ZombieSchema ==
    StructSchema(<<PairField("type", StringSchema, FALSE),
                   PairField("a", IntSchema(None), TRUE)>>)
\* Schema B of the registry.
SkeletonSchema == StructSchema(<<PairField("a", StringSchema, FALSE)>>)

McdocDispatchers ==
    [p \in {"reg:entity", "reg:bad"} |->
        IF p = "reg:entity"
        THEN [k \in {"zombie", "skeleton"} |->
                 IF k = "zombie" THEN Raw(ZombieSchema) ELSE Raw(SkeletonSchema)]
        ELSE [k \in {"zombie", "skeleton"} |->
                 IF k = "zombie" THEN Malformed ELSE Raw(SkeletonSchema)]]

\* The strings of the model for which str.startswith("%") is true.
PercentStrings == {"%fallback", "%unknown", "%none"}

(***************************************************************************)
(* McdocValidator.get_mcdoc_schema and get_dispatcher_schema.  A lookup    *)
(* returns [raised, value]: raised is "none" or the class of the exception *)
(* that leaves the method.  A missing path raises KeyError inside the try  *)
(* block before `data` is bound, and the handler's json.dumps(data) then   *)
(* raises UnboundLocalError.                                               *)
(***************************************************************************)
get_mcdoc_schema(path) ==
    IF path \notin DOMAIN McdocSchemas
    THEN [raised |-> "UnboundLocalError", value |-> Absent]
    ELSE IF McdocSchemas[path].malformed
         THEN [raised |-> "none", value |-> Absent]
         ELSE [raised |-> "none", value |-> McdocSchemas[path].schema]

\* is_dict: the method returned the decoded mapping; otherwise it returned
\* the dummy Schema.model_construct(None), which has no .get.
get_dispatcher_schema(path) ==
    IF path \notin DOMAIN McdocDispatchers
    THEN [raised |-> "UnboundLocalError", is_dict |-> FALSE, value |-> <<>>]
    ELSE IF \E k \in DOMAIN McdocDispatchers[path] : McdocDispatchers[path][k].malformed
         THEN [raised |-> "none", is_dict |-> FALSE, value |-> <<>>]
         ELSE [raised |-> "none", is_dict |-> TRUE,
               value |-> [k \in DOMAIN McdocDispatchers[path] |->
                              McdocDispatchers[path][k].schema]]

(***************************************************************************)
(* Helpers of McdocValidator.validate_data.                                *)
(***************************************************************************)
\* except (ValidationError, ExceptionGroup): the clause of every aggregating
\* loop, for the classes of lib.errors.
CaughtAnyException(r) == r.exc # "none"
Caught(r) == r.exc \in ValidationErrorClasses \cup {"ExceptionGroup"}

\* raise ValidationError(path[-1], ...): path[-1] of an empty list raises
\* IndexError before the error is built.
RaiseAtLast(path, value, expected, sub, msg) ==
    IF Len(path) = 0
    THEN Raise("IndexError")
    ELSE ValidationError(path[Len(path)], value, expected, sub, msg)

\* raise ValidationError(path[1], data, "union", errors, ...): Python's
\* path[1] is the second element.
RaiseUnion(path, data, errors, n) ==
    IF Len(path) < 2
    THEN Raise("IndexError")
    ELSE ValidationError(path[2], data, "union", errors,
             <<"Data failed to validate against any of the union members", n>>)

\* A union without errors that returns.
ReturnOnEmptyUnion(path) == Ok

\* raise MissingValidationError(path[-1], None, "union")
RaiseEmptyUnion(path) ==
    IF Len(path) = 0
    THEN Raise("IndexError")
    ELSE MissingValidationError(path[Len(path)], JNone, "union")

\* The keys of a set in one fixed order (Python iterates a set of str in an
\* order the language does not specify; the model fixes one).
RECURSIVE SetToSeq(_)
SetToSeq(S) ==
    IF S = {} THEN <<>>
    ELSE LET k == CHOOSE x \in S : TRUE IN <<k>> \o SetToSeq(S \ {k})

\* {key: data[key] for key in keys}
Restrict(f, keys) == [k \in keys |-> f[k]]

\* Length checks whose bounds are exclusive.
LengthCheckExclusive(data, length_range, path, expected) ==
    LET length == Len(data.lv) IN
    IF length_range = None THEN Ok
    ELSE LET r == length_range[1] IN
         IF r.min # None /\ length <= r.min[1]
         THEN RaiseAtLast(path, data, expected, <<>>,
                  <<"List length is less than minimum required", length, r.min>>)
         ELSE IF r.max # None /\ length >= r.max[1]
         THEN RaiseAtLast(path, data, expected, <<>>,
                  <<"List length is greater than maximum allowed", length, r.min>>)
         ELSE Ok

\* The length checks shared by the list kinds: "none" or the error raised.
LengthCheck(data, length_range, path, expected) ==
    LET length == Len(data.lv) IN
    IF length_range = None THEN Ok
    ELSE LET r == length_range[1] IN
         IF r.min # None /\ length < r.min[1]
         THEN RaiseAtLast(path, data, expected, <<>>,
                  <<"List length is less than minimum required", length, r.min>>)
         ELSE IF r.max # None /\ length > r.max[1]
         THEN RaiseAtLast(path, data, expected, <<>>,
                  <<"List length is greater than maximum allowed", length, r.min>>)
         ELSE Ok

\* The value checks of IntSchema and FloatSchema.
ValueCheck(data, value_range, path, expected) ==
    IF value_range = None THEN Ok
    ELSE LET r == value_range[1] IN
         IF r.min # None /\ Twice(data) < 2 * r.min[1]
         THEN RaiseAtLast(path, data, expected, <<>>,
                  <<"is less than minimum allowed", r.min>>)
         ELSE IF r.max # None /\ Twice(data) > 2 * r.max[1]
         THEN RaiseAtLast(path, data, expected, <<>>,
                  <<"is greater than maxinum allowed", r.max>>)
         ELSE Ok


(***************************************************************************)
(* McdocValidator.validate_data(data, schema, path, parent).  depth is the *)
(* number of nested calls the interpreter still allows.                    *)
(***************************************************************************)
RECURSIVE LibValidate(_, _, _, _, _)
RECURSIVE LibUnionLoop(_, _, _, _, _, _)
RECURSIVE LibListLoop(_, _, _, _, _, _)
RECURSIVE LibStructLoop(_, _, _, _, _, _)
RECURSIVE LibUnionTypes(_, _, _, _)
RECURSIVE LibDispatchLoop(_, _, _, _, _, _, _)

\* for i, member_schema in enumerate(members): ... (lines 124-142).  errors
\* is the list built so far, i the next member.
LibUnionLoop(data, members, path, i, errors, depth) ==
    IF i > Len(members)
    THEN IF errors # <<>>
         THEN RaiseUnion(path, data, errors, Len(members))
         ELSE RaiseEmptyUnion(path)
    ELSE LET r == LibValidate(data, members[i], path, JNone, depth - 1) IN
         IF r.exc = "none"
         THEN IF members[i].kind # "none"
              THEN Ok
              ELSE LibUnionLoop(data, members, path, i + 1, errors, depth)
         ELSE IF Caught(r)
              THEN LibUnionLoop(data, members, path, i + 1, Append(errors, r), depth)
              ELSE r

\* for i, item in enumerate(data): ... (lines 165-170).  Returns the
\* exception that escapes the loop, or Ok carrying item_errors in sub.
LibListLoop(data, item_schema, path, i, item_errors, depth) ==
    IF i > Len(data.lv)
    THEN [Ok EXCEPT !.sub = item_errors]
    ELSE LET r == LibValidate(data.lv[i], item_schema,
                              Append(path, JInt(i - 1)), data, depth - 1) IN
         IF r.exc = "none"
         THEN LibListLoop(data, item_schema, path, i + 1, item_errors, depth)
         ELSE IF Caught(r)
              THEN LibListLoop(data, item_schema, path, i + 1,
                               Append(item_errors, r), depth)
              ELSE r

\* The state of the field loop of the struct case.
StructState(remaining_keys, spread_schema, has_spread_field, struct_errors) ==
    [remaining_keys |-> remaining_keys, spread_schema |-> spread_schema,
     has_spread_field |-> has_spread_field, struct_errors |-> struct_errors]

\* A field loop that keeps the first error only.
KeepFirstError(struct_errors, e) ==
    IF struct_errors = <<>> THEN <<e>> ELSE struct_errors

\* struct_errors.append(e) (lines 352, 354)
AddError(struct_errors, e) == Append(struct_errors, e)

\* for field in fields: ... (lines 330-364).  Returns [raised, st]: the
\* exception that escapes the loop (or Ok) and the loop's state at its end.
LibStructLoop(data, fields, path, i, st, depth) ==
    IF i > Len(fields)
    THEN [raised |-> Ok, st |-> st]
    ELSE LET field == fields[i] IN
         IF field.kind = "pair"
         THEN IF field.key_is_schema
              THEN LibStructLoop(data, fields, path, i + 1, st, depth)
              ELSE IF field.key \in DOMAIN data.dv
              THEN LET discarded == [st EXCEPT !.remaining_keys = @ \ {field.key}]
                       r == LibValidate(data.dv[field.key], field.type,
                                        Append(path, JStr(field.key)), data, depth - 1)
                   IN IF r.exc = "none"
                      THEN LibStructLoop(data, fields, path, i + 1, discarded, depth)
                      ELSE IF Caught(r)
                      THEN LibStructLoop(data, fields, path, i + 1,
                               [discarded EXCEPT !.struct_errors = AddError(@, r)], depth)
                      ELSE [raised |-> r, st |-> discarded]
              ELSE IF ~field.optional
              THEN LibStructLoop(data, fields, path, i + 1,
                       [st EXCEPT !.struct_errors =
                           AddError(@, MissingValidationError(JStr(field.key), field, "dict"))],
                       depth)
              ELSE LibStructLoop(data, fields, path, i + 1, st, depth)
         ELSE IF st.has_spread_field
              THEN [raised |-> SchemaDefinitionError(path), st |-> st]
              ELSE LibStructLoop(data, fields, path, i + 1,
                       [st EXCEPT !.spread_schema = Some(field.type),
                                  !.has_spread_field = TRUE], depth)

\* if remaining_keys: ... (lines 366-376): the errors list after the
\* remaining keys were handled, or the exception that escapes.
LibRemainingKeys(data, path, st, depth) ==
    IF st.remaining_keys = {}
    THEN [Ok EXCEPT !.sub = st.struct_errors]
    ELSE IF st.spread_schema # None
    THEN LET r == LibValidate(JDict(Restrict(data.dv, st.remaining_keys)),
                              st.spread_schema[1], path, data, depth - 1) IN
         IF r.exc = "none" THEN [Ok EXCEPT !.sub = st.struct_errors]
         ELSE IF Caught(r) THEN [Ok EXCEPT !.sub = Append(st.struct_errors, r)]
         ELSE r
    ELSE LET keys == SetToSeq(st.remaining_keys) IN
         [Ok EXCEPT !.sub = st.struct_errors \o
             [j \in 1..Len(keys) |-> UnexpectedValidationError(JStr(keys[j]), data.dv[keys[j]])]]

\* case StructSchema(fields=fields) (lines 321-385)
LibStruct(data, fields, path, depth) ==
    IF data.t # "dict"
    THEN RaiseAtLast(path, data, "dict", <<>>, <<>>)
    ELSE LET loop == LibStructLoop(data, fields, path, 1,
                         StructState(DOMAIN data.dv, None, FALSE, <<>>), depth)
         IN IF loop.raised.exc # "none" THEN loop.raised
            ELSE LET rest == LibRemainingKeys(data, path, loop.st, depth) IN
                 IF rest.exc # "none" THEN rest
                 ELSE IF rest.sub # <<>>
                 THEN RaiseAtLast(path, data, "dict", rest.sub,
                                  <<"Multiple errors in struct validation">>)
                 ELSE Ok

\* One entry of union_types: the discriminant and the accessor it came from.
UnionType(typ, accessor) == [typ |-> typ, accessor |-> accessor]

\* parent[accessor] for a str accessor: [raised, value].
ParentItem(parent, accessor) ==
    CASE parent.t = "dict" ->
            IF accessor \in DOMAIN parent.dv
            THEN [raised |-> "none", value |-> parent.dv[accessor]]
            ELSE [raised |-> "KeyError", value |-> JNone]
      [] OTHER -> [raised |-> "TypeError", value |-> JNone]

\* union_types.extend((parent[accessor], accessor) for accessor in accessors
\* if type(accessor) is str), from accessor j on: [raised, types].
LibUnionTypes(parent, accessors, j, acc) ==
    IF j > Len(accessors)
    THEN [raised |-> "none", types |-> acc]
    ELSE IF accessors[j].t # "str"
    THEN LibUnionTypes(parent, accessors, j + 1, acc)
    ELSE LET item == ParentItem(parent, accessors[j].sv) IN
         IF item.raised # "none"
         THEN [raised |-> item.raised, types |-> acc]
         ELSE LibUnionTypes(parent, accessors, j + 1,
                  Append(acc, UnionType(item.value, Some(accessors[j].sv))))

\* for index in parallel_indices: ... (lines 415-425): [raised, types].
RECURSIVE LibIndices(_, _, _, _)
LibIndices(parent, indices, i, acc) ==
    IF i > Len(indices)
    THEN [raised |-> "none", types |-> acc]
    ELSE IF indices[i].kind = "dynamic"
    THEN LET got == LibUnionTypes(parent, indices[i].accessor, 1, acc) IN
         IF got.raised # "none" THEN got
         ELSE LibIndices(parent, indices, i + 1, got.types)
    ELSE LibIndices(parent, indices, i + 1,
             Append(acc, UnionType(JStr(indices[i].value), None)))

\* The data handed to the schema the dispatcher found (line 431):
\* {k: v for k, v in data.items() if k != accessor}
DispatchedData(data, accessor) ==
    IF accessor = None THEN data
    ELSE JDict(Restrict(data.dv, DOMAIN data.dv \ {accessor[1]}))

\* raise ValidationError("dispatcher not found") (line 442): the constructor
\* of lib.errors.ValidationError requires name, value and expected, so the
\* call itself raises TypeError.
RaiseDispatcherNotFound == Raise("TypeError")

\* for typ, accessor in union_types: ... else: ... (lines 427-442)
LibDispatchLoop(data, registry, types, i, fallback, path, depth) ==
    IF i > Len(types)
    THEN IF ~fallback THEN RaiseDispatcherNotFound ELSE Ok
    ELSE LET typ == types[i].typ IN
         IF ~registry.is_dict THEN Raise("AttributeError")
         ELSE IF typ.t \in {"list", "dict"} THEN Raise("TypeError")
         ELSE IF typ.t = "str" /\ typ.sv \in DOMAIN registry.value
         THEN IF data.t # "dict" THEN Raise("AttributeError")
              ELSE LibValidate(DispatchedData(data, types[i].accessor),
                               registry.value[typ.sv], path, data, depth - 1)
         ELSE IF typ.t # "str" THEN Raise("AttributeError")
         ELSE LibDispatchLoop(data, registry, types, i + 1,
                  fallback \/ typ.sv \in PercentStrings, path, depth)

\* case DispatcherSchema(...) (lines 406-442)
LibDispatcher(data, schema, path, parent, depth) ==
    IF data.t \notin {"list", "dict"}
    THEN RaiseAtLast(path, data, "dispatcher (list|dict)", <<>>, <<>>)
    ELSE LET registry == get_dispatcher_schema(schema.registry) IN
         IF registry.raised # "none" THEN Raise(registry.raised)
         ELSE LET got == LibIndices(parent, schema.parallel_indices, 1, <<>>) IN
              IF got.raised # "none" THEN Raise(got.raised)
              ELSE LibDispatchLoop(data, registry, got.types, 1, FALSE, path, depth)

LibValidate(data, schema, path, parent, depth) ==
    IF depth = 0 THEN Raise("RecursionError")
    ELSE CASE schema.kind = "reference" ->
                LET resolved == get_mcdoc_schema(schema.path) IN
                IF resolved.raised # "none" THEN Raise(resolved.raised)
                ELSE LibValidate(data, resolved.value, path, JNone, depth - 1)
           [] schema.kind = "union" ->
                LibUnionLoop(data, schema.members, path, 1, <<>>, depth)
           [] schema.kind = "list" ->
                IF data.t # "list" THEN RaiseAtLast(path, data, "list", <<>>, <<>>)
                ELSE LET len == LengthCheck(data, schema.length_range, path, "list") IN
                     IF len.exc # "none" THEN len
                     ELSE LET loop == LibListLoop(data, schema.item, path, 1, <<>>, depth) IN
                          IF loop.exc # "none" THEN loop
                          ELSE IF loop.sub # <<>>
                          THEN RaiseAtLast(path, data, "list", loop.sub,
                                   <<"Multiple items in list failed validation">>)
                          ELSE Ok
           [] schema.kind \in {"int_array", "float_array"} ->
                IF data.t # "list" THEN RaiseAtLast(path, data, "list", <<>>, <<>>)
                ELSE LET len == LengthCheck(data, schema.length_range, path,
                                    IF schema.kind = "int_array"
                                    THEN "list[int]" ELSE "list[float]") IN
                     IF len.exc # "none" THEN len
                     \* isinstance(item) with one argument raises TypeError,
                     \* which the except clause does not catch.
                     ELSE IF Len(data.lv) > 0 THEN Raise("TypeError")
                     ELSE Ok
           [] schema.kind = "string" ->
                IF data.t # "str" THEN RaiseAtLast(path, data, "str", <<>>, <<>>) ELSE Ok
           [] schema.kind = "int" ->
                IF ~IsInt(data) THEN RaiseAtLast(path, data, "int", <<>>, <<>>)
                ELSE ValueCheck(data, schema.value_range, path, "int")
           [] schema.kind = "float" ->
                IF ~IsNumber(data) THEN RaiseAtLast(path, data, "float", <<>>, <<>>)
                ELSE ValueCheck(data, schema.value_range, path, "float")
           [] schema.kind = "boolean" ->
                IF data.t # "bool" THEN RaiseAtLast(path, data, "bool", <<>>, <<>>) ELSE Ok
           [] schema.kind = "byte" ->
                IF ~IsInt(data) THEN RaiseAtLast(path, data, "byte", <<>>, <<>>) ELSE Ok
           [] schema.kind = "struct" ->
                LibStruct(data, schema.fields, path, depth)
           [] schema.kind = "dispatcher" ->
                LibDispatcher(data, schema, path, parent, depth)
           \* schema.root is None: no case matches and the call returns.
           [] OTHER -> Ok


(***************************************************************************)
(* validate_data(data, schema, mcdoc, path) of component_caching.py.  Its  *)
(* ValidationError(message, path, schema_kind) is a class of its own; the  *)
(* aggregating cases raise ExceptionGroup(message, errors).                *)
(***************************************************************************)
PluginError(msg, path, schema_kind) ==
    Result("ValidationError", JNone, JNone, schema_kind, <<>>, msg, path)
ExceptionGroup(msg, errors) ==
    Result("ExceptionGroup", JNone, JNone, "", errors, msg, <<>>)

\* The mcdoc argument: one flat mapping, which holds the registries too.
PluginMcdoc == DOMAIN McdocSchemas \cup DOMAIN McdocDispatchers

\* resolve_schema_reference(path, mcdoc): a missing path raises KeyError in
\* the try block and again in the handler's json.dumps(mcdoc[path]); an
\* entry that does not decode gives the dummy schema.
resolve_schema_reference(path) ==
    IF path \notin PluginMcdoc
    THEN [raised |-> "KeyError", value |-> Absent]
    ELSE IF path \in DOMAIN McdocSchemas /\ ~McdocSchemas[path].malformed
         THEN [raised |-> "none", value |-> McdocSchemas[path].schema]
         ELSE [raised |-> "none", value |-> Absent]

PluginLengthCheck(data, length_range, path) ==
    LET length == Len(data.lv) IN
    IF length_range = None THEN Ok
    ELSE LET r == length_range[1] IN
         IF r.min # None /\ length < r.min[1]
         THEN PluginError(<<"List length is less than minimum required", length, r.min>>,
                          path, "list")
         ELSE IF r.max # None /\ length > r.max[1]
         THEN PluginError(<<"List length is greater than maximum allowed", length, r.max>>,
                          path, "list")
         ELSE Ok

PluginValueCheck(data, value_range, path, schema_kind) ==
    IF value_range = None THEN Ok
    ELSE LET r == value_range[1] IN
         IF r.min # None /\ Twice(data) < 2 * r.min[1]
         THEN PluginError(<<"value is less than minimum allowed", data, r.min>>,
                          path, schema_kind)
         ELSE IF r.max # None /\ Twice(data) > 2 * r.max[1]
         THEN PluginError(<<"value is greater than maximum allowed", data, r.max>>,
                          path, schema_kind)
         ELSE Ok

RECURSIVE PluginValidate(_, _, _, _)
RECURSIVE PluginUnionLoop(_, _, _, _, _, _)
RECURSIVE PluginListLoop(_, _, _, _, _, _)
RECURSIVE PluginStructLoop(_, _, _, _, _, _)
RECURSIVE PluginSpreadLoop(_, _, _, _, _, _, _)

\* lines 344-360
PluginUnionLoop(data, members, path, i, errors, depth) ==
    IF i > Len(members)
    THEN IF errors # <<>>
         THEN ExceptionGroup(
                  <<"Data failed to validate against any of the union members",
                    Len(members)>>, errors)
         ELSE PluginError(<<"UnionSchema has no members to validate against.">>,
                          path, "union")
    ELSE LET r == PluginValidate(data, members[i], path, depth - 1) IN
         IF r.exc = "none" THEN Ok
         ELSE IF Caught(r)
              THEN PluginUnionLoop(data, members, path, i + 1, Append(errors, r), depth)
              ELSE r

\* lines 383-388
PluginListLoop(data, item_schema, path, i, item_errors, depth) ==
    IF i > Len(data.lv)
    THEN [Ok EXCEPT !.sub = item_errors]
    ELSE LET r == PluginValidate(data.lv[i], item_schema,
                                 Append(path, JInt(i - 1)), depth - 1) IN
         IF r.exc = "none"
         THEN PluginListLoop(data, item_schema, path, i + 1, item_errors, depth)
         ELSE IF Caught(r)
              THEN PluginListLoop(data, item_schema, path, i + 1,
                                  Append(item_errors, r), depth)
              ELSE r

\* lines 532-567: a key is discarded from remaining_keys only after its
\* value validated.
PluginStructLoop(data, fields, path, i, st, depth) ==
    IF i > Len(fields)
    THEN [raised |-> Ok, st |-> st]
    ELSE LET field == fields[i] IN
         IF field.kind = "pair"
         THEN IF field.key_is_schema
              THEN PluginStructLoop(data, fields, path, i + 1, st, depth)
              ELSE IF field.key \in DOMAIN data.dv
              THEN LET r == PluginValidate(data.dv[field.key], field.type,
                                           Append(path, JStr(field.key)), depth - 1)
                   IN IF r.exc = "none"
                      THEN PluginStructLoop(data, fields, path, i + 1,
                               [st EXCEPT !.remaining_keys = @ \ {field.key}], depth)
                      ELSE IF Caught(r)
                      THEN PluginStructLoop(data, fields, path, i + 1,
                               [st EXCEPT !.struct_errors = Append(@, r)], depth)
                      ELSE [raised |-> r, st |-> st]
              ELSE IF ~field.optional
              THEN PluginStructLoop(data, fields, path, i + 1,
                       [st EXCEPT !.struct_errors =
                           Append(@, PluginError(<<"Missing required field", field.key>>,
                                                 Append(path, JStr(field.key)), "struct"))],
                       depth)
              ELSE PluginStructLoop(data, fields, path, i + 1, st, depth)
         ELSE IF st.has_spread_field
              THEN [raised |-> SchemaDefinitionError(path), st |-> st]
              ELSE PluginStructLoop(data, fields, path, i + 1,
                       [st EXCEPT !.spread_schema = Some(field.type),
                                  !.has_spread_field = TRUE], depth)

\* lines 571-575: every remaining key against the spread schema.
PluginSpreadLoop(data, keys, spread_schema, path, j, errors, depth) ==
    IF j > Len(keys)
    THEN [Ok EXCEPT !.sub = errors]
    ELSE LET r == PluginValidate(data.dv[keys[j]], spread_schema,
                                 Append(path, JStr(keys[j])), depth - 1) IN
         IF r.exc = "none"
         THEN PluginSpreadLoop(data, keys, spread_schema, path, j + 1, errors, depth)
         ELSE IF Caught(r)
              THEN PluginSpreadLoop(data, keys, spread_schema, path, j + 1,
                                    Append(errors, r), depth)
              ELSE r

\* lines 569-582
PluginRemainingKeys(data, path, st, depth) ==
    LET keys == SetToSeq(st.remaining_keys) IN
    IF st.remaining_keys = {}
    THEN [Ok EXCEPT !.sub = st.struct_errors]
    ELSE IF st.spread_schema # None
    THEN PluginSpreadLoop(data, keys, st.spread_schema[1], path, 1,
                          st.struct_errors, depth)
    ELSE [Ok EXCEPT !.sub = st.struct_errors \o
             [j \in 1..Len(keys) |->
                 PluginError(<<"Unexpected field", keys[j]>>,
                             Append(path, JStr(keys[j])), "struct")]]

\* lines 521-587
PluginStruct(data, fields, path, depth) ==
    IF data.t # "dict"
    THEN PluginError(<<"Expected a dictionary">>, path, "struct")
    ELSE LET loop == PluginStructLoop(data, fields, path, 1,
                         StructState(DOMAIN data.dv, None, FALSE, <<>>), depth)
         IN IF loop.raised.exc # "none" THEN loop.raised
            ELSE LET rest == PluginRemainingKeys(data, path, loop.st, depth) IN
                 IF rest.exc # "none" THEN rest
                 ELSE IF rest.sub # <<>>
                 THEN ExceptionGroup(<<"Multiple errors in struct validation">>, rest.sub)
                 ELSE Ok

\* The accessor walk of one dynamic index over the data (lines 633-657):
\* TRUE iff every part is found, and then the value reached.
RECURSIVE PluginWalk(_, _, _)
PluginWalk(current, accessor, j) ==
    IF j > Len(accessor)
    THEN [found |-> TRUE, value |-> current]
    ELSE LET part == accessor[j] IN
         IF current.t = "dict" /\ part.t = "str" /\ part.sv \in DOMAIN current.dv
         THEN PluginWalk(current.dv[part.sv], accessor, j + 1)
         ELSE IF current.t = "list" /\ part.t = "int"
                 /\ 0 <= part.iv /\ part.iv < Len(current.lv)
         THEN PluginWalk(current.lv[part.iv + 1], accessor, j + 1)
         ELSE [found |-> FALSE, value |-> JNone]

\* extracted_key_parts and dispatcher_accessor_errors after the loop over
\* parallel_indices (lines 630-668).  A static index has no accessor: the
\* attribute access raises and the handler records an error for it.
RECURSIVE PluginIndices(_, _, _, _, _)
PluginIndices(data, indices, path, i, acc) ==
    IF i > Len(indices) THEN acc
    ELSE LET walk == IF indices[i].kind = "dynamic"
                     THEN PluginWalk(data, indices[i].accessor, 1)
                     ELSE [found |-> FALSE, value |-> JNone] IN
         PluginIndices(data, indices, path, i + 1,
             IF walk.found
             THEN [acc EXCEPT !.keys = Append(@, walk.value)]
             ELSE [acc EXCEPT !.errors =
                      Append(@, PluginError(<<"dispatcher key extraction">>,
                                            Append(path, JInt(i - 1)), "dispatcher"))])

\* lines 620-717.  The registry is resolved with resolve_schema_reference,
\* whose result is a Schema: its root is never a dict.
PluginDispatcher(data, schema, path, depth) ==
    IF data.t # "dict"
    THEN PluginError(<<"Expected a dictionary for dispatcher">>, path, "dispatcher")
    ELSE LET got == PluginIndices(data, schema.parallel_indices, path, 1,
                                  [keys |-> <<>>, errors |-> <<>>]) IN
         IF got.keys = <<>>
         THEN IF got.errors # <<>>
              THEN ExceptionGroup(
                       <<"Failed to extract a dispatcher key from any parallel index">>,
                       got.errors)
              ELSE PluginError(<<"No dispatcher key could be extracted">>, path,
                               "dispatcher")
         ELSE LET registry == resolve_schema_reference(schema.registry) IN
              IF registry.raised # "none" THEN Raise(registry.raised)
              ELSE PluginError(<<"Registry must resolve to a dictionary of schemas",
                                 schema.registry>>, path, "dispatcher")

PluginValidate(data, schema, path, depth) ==
    IF depth = 0 THEN Raise("RecursionError")
    ELSE CASE schema.kind = "reference" ->
                LET resolved == resolve_schema_reference(schema.path) IN
                IF resolved.raised # "none" THEN Raise(resolved.raised)
                ELSE PluginValidate(data, resolved.value, path, depth - 1)
           [] schema.kind = "union" ->
                PluginUnionLoop(data, schema.members, path, 1, <<>>, depth)
           [] schema.kind = "list" ->
                IF data.t # "list" THEN PluginError(<<"Expected a list">>, path, "list")
                ELSE LET len == PluginLengthCheck(data, schema.length_range, path) IN
                     IF len.exc # "none" THEN len
                     ELSE LET loop == PluginListLoop(data, schema.item, path, 1, <<>>, depth) IN
                          IF loop.exc # "none" THEN loop
                          ELSE IF loop.sub # <<>>
                          THEN ExceptionGroup(
                                   <<"Multiple items in list failed validation">>, loop.sub)
                          ELSE Ok
           [] schema.kind \in {"int_array", "float_array"} ->
                IF data.t # "list" THEN PluginError(<<"Expected a list">>, path, "list")
                ELSE LET len == PluginLengthCheck(data, schema.length_range, path) IN
                     IF len.exc # "none" THEN len
                     ELSE IF Len(data.lv) > 0 THEN Raise("TypeError")
                     ELSE Ok
           [] schema.kind = "string" ->
                IF data.t # "str"
                THEN PluginError(<<"Expected a string">>, path, "string") ELSE Ok
           [] schema.kind = "int" ->
                IF ~IsInt(data) THEN PluginError(<<"Expected an integer">>, path, "int")
                ELSE PluginValueCheck(data, schema.value_range, path, "int")
           [] schema.kind = "float" ->
                IF ~IsNumber(data)
                THEN PluginError(<<"Expected a number (int or float)">>, path, "float")
                ELSE PluginValueCheck(data, schema.value_range, path, "float")
           [] schema.kind = "boolean" ->
                IF data.t # "bool"
                THEN PluginError(<<"Expected a boolean">>, path, "boolean") ELSE Ok
           [] schema.kind = "struct" ->
                PluginStruct(data, schema.fields, path, depth)
           [] schema.kind = "dispatcher" ->
                PluginDispatcher(data, schema, path, depth)
           \* schema.root is None, or a kind this version has no case for.
           [] OTHER -> Ok


(***************************************************************************)
(* The caches of McdocValidator.  get_mcdoc_schema and                     *)
(* get_dispatcher_schema are wrapped by methodtools.lru_cache with         *)
(* maxsize=None: each validator holds, per method, the value returned for  *)
(* every path whose call returned; a call that raises stores nothing.  A   *)
(* cache maps every path of the model to None or to Some(value).           *)
(***************************************************************************)
ResolverPaths ==
    DOMAIN McdocSchemas \cup DOMAIN McdocDispatchers \cup {"ref:missing", "reg:missing"}

EmptyCache == [p \in ResolverPaths |-> None]

\* A lookup that never finds its entry.
NeverMemoized(cache, path) == FALSE

\* The lookup of lru_cache: the path has an entry.
Memoized(cache, path) == cache[path] # None

\* A call of a cached method on one validator, given what the body computes:
\* the stored value on a hit, the body's outcome otherwise.
Cached(cache, path, body) == IF Memoized(cache, path) THEN cache[path][1] ELSE body

\* The cache after calls on the paths of `returned`, whose bodies give
\* body[p]: a path without an entry gets one.
Stored(cache, returned, body) ==
    [p \in ResolverPaths |->
        IF p \in returned /\ ~Memoized(cache, p) THEN Some(body[p]) ELSE cache[p]]

\* The number of times the body of a cached method has decoded the entry of
\* each path (Schema.model_validate), after calls on the paths of `returned`.
Decoded(count, cache, returned) ==
    [p \in ResolverPaths |->
        IF p \in returned /\ ~Memoized(cache, p) THEN count[p] + 1 ELSE count[p]]

(***************************************************************************)
(* The calls of the two cached methods that validate_data makes and that   *)
(* return, as pairs <<method, path>>.  The operators follow the control    *)
(* flow of validate_data: a loop stops where its outcome leaves it.        *)
(***************************************************************************)
RECURSIVE LibResolved(_, _, _, _, _)
RECURSIVE LibDispatchResolved(_, _, _, _, _, _)

\* Member k of the union is tried: no earlier member returned or let an
\* exception escape.
LibUnionReaches(data, members, path, k, depth) ==
    \A j \in 1..(k - 1) :
        LET r == LibValidate(data, members[j], path, JNone, depth - 1) IN
        IF r.exc = "none" THEN members[j].kind = "none" ELSE Caught(r)

\* Item k of the list is validated: no earlier item let an exception escape.
LibListReaches(data, item_schema, path, k, depth) ==
    \A j \in 1..(k - 1) :
        LET r == LibValidate(data.lv[j], item_schema,
                             Append(path, JInt(j - 1)), data, depth - 1) IN
        r.exc = "none" \/ Caught(r)

\* The field loop of the struct over its first k fields.
LibFieldsUpTo(data, fields, path, k, depth) ==
    LibStructLoop(data, SubSeq(fields, 1, k), path, 1,
                  StructState(DOMAIN data.dv, None, FALSE, <<>>), depth)

LibDispatchResolved(data, registry, types, i, path, depth) ==
    IF i > Len(types) THEN {}
    ELSE LET typ == types[i].typ IN
         IF ~registry.is_dict \/ typ.t # "str" THEN {}
         ELSE IF typ.sv \in DOMAIN registry.value
         THEN IF data.t # "dict" THEN {}
              ELSE LibResolved(DispatchedData(data, types[i].accessor),
                               registry.value[typ.sv], path, data, depth - 1)
         ELSE LibDispatchResolved(data, registry, types, i + 1, path, depth)

LibResolved(data, schema, path, parent, depth) ==
    IF depth = 0 THEN {}
    ELSE CASE schema.kind = "reference" ->
                LET resolved == get_mcdoc_schema(schema.path) IN
                IF resolved.raised # "none" THEN {}
                ELSE {<<"get_mcdoc_schema", schema.path>>}
                         \cup LibResolved(data, resolved.value, path, JNone, depth - 1)
           [] schema.kind = "union" ->
                UNION {LibResolved(data, schema.members[k], path, JNone, depth - 1) :
                          k \in {i \in 1..Len(schema.members) :
                                    LibUnionReaches(data, schema.members, path, i, depth)}}
           [] schema.kind = "list" ->
                IF data.t # "list"
                   \/ LengthCheck(data, schema.length_range, path, "list").exc # "none"
                THEN {}
                ELSE UNION {LibResolved(data.lv[k], schema.item,
                                        Append(path, JInt(k - 1)), data, depth - 1) :
                               k \in {i \in 1..Len(data.lv) :
                                         LibListReaches(data, schema.item, path, i, depth)}}
           [] schema.kind = "struct" ->
                IF data.t # "dict" THEN {}
                ELSE LET validated ==
                             {i \in 1..Len(schema.fields) :
                                 /\ schema.fields[i].kind = "pair"
                                 /\ ~schema.fields[i].key_is_schema
                                 /\ schema.fields[i].key \in DOMAIN data.dv
                                 /\ LibFieldsUpTo(data, schema.fields, path, i - 1,
                                                  depth).raised.exc = "none"}
                         loop == LibFieldsUpTo(data, schema.fields, path,
                                               Len(schema.fields), depth)
                     IN UNION {LibResolved(data.dv[schema.fields[i].key],
                                           schema.fields[i].type,
                                           Append(path, JStr(schema.fields[i].key)),
                                           data, depth - 1) : i \in validated}
                        \cup IF /\ loop.raised.exc = "none"
                                /\ loop.st.remaining_keys # {}
                                /\ loop.st.spread_schema # None
                             THEN LibResolved(
                                      JDict(Restrict(data.dv, loop.st.remaining_keys)),
                                      loop.st.spread_schema[1], path, data, depth - 1)
                             ELSE {}
           [] schema.kind = "dispatcher" ->
                IF data.t \notin {"list", "dict"} THEN {}
                ELSE LET registry == get_dispatcher_schema(schema.registry) IN
                     IF registry.raised # "none" THEN {}
                     ELSE {<<"get_dispatcher_schema", schema.registry>>} \cup
                          LET got == LibIndices(parent, schema.parallel_indices, 1, <<>>) IN
                          IF got.raised # "none" THEN {}
                          ELSE LibDispatchResolved(data, registry, got.types, 1,
                                                   path, depth)
           [] OTHER -> {}

\* The paths on which the named method returned.
PathsOf(method, resolved) == {c[2] : c \in {d \in resolved : d[1] = method}}

(***************************************************************************)
(* The document after a validation.  The struct case works on              *)
(* remaining_keys = set(data.keys()), a set of its own, and the dicts      *)
(* handed to a spread schema or to a dispatched schema are built by        *)
(* comprehension; every other case only reads its data.                    *)
(***************************************************************************)
\* The keys of data after `discarded` were discarded from a remaining_keys
\* that is the key view of data itself.
KeysOfAliasedDict(data, discarded) == DOMAIN data.dv \ discarded

\* The keys of data after `discarded` were discarded from remaining_keys.
KeysOfDict(data, discarded) == DOMAIN data.dv

RECURSIVE LibDocument(_, _, _, _, _)
LibDocument(data, schema, path, parent, depth) ==
    IF depth = 0 THEN data
    ELSE IF schema.kind = "reference"
    THEN LET resolved == get_mcdoc_schema(schema.path) IN
         IF resolved.raised # "none" THEN data
         ELSE LibDocument(data, resolved.value, path, JNone, depth - 1)
    ELSE IF schema.kind = "struct" /\ data.t = "dict"
    THEN LET loop == LibFieldsUpTo(data, schema.fields, path, Len(schema.fields), depth)
         IN JDict(Restrict(data.dv,
                     KeysOfDict(data, DOMAIN data.dv \ loop.st.remaining_keys)))
    ELSE data

RECURSIVE PluginDocument(_, _, _, _)
PluginDocument(data, schema, path, depth) ==
    IF depth = 0 THEN data
    ELSE IF schema.kind = "reference"
    THEN LET resolved == resolve_schema_reference(schema.path) IN
         IF resolved.raised # "none" THEN data
         ELSE PluginDocument(data, resolved.value, path, depth - 1)
    ELSE IF schema.kind = "struct" /\ data.t = "dict"
    THEN LET loop == PluginStructLoop(data, schema.fields, path, 1,
                         StructState(DOMAIN data.dv, None, FALSE, <<>>), depth)
         IN JDict(Restrict(data.dv,
                     KeysOfDict(data, DOMAIN data.dv \ loop.st.remaining_keys)))
    ELSE data

(***************************************************************************)
(* create_schemas and the load of the component schemas in beet_default:   *)
(* dict(create_schemas(registry)).  The generator decodes the entries in   *)
(* order without a try block: the first entry that does not decode raises  *)
(* pydantic's ValidationError out of dict(...), and no mapping is built.   *)
(***************************************************************************)
create_schemas(data) ==
    IF \E k \in DOMAIN data : data[k].malformed
    THEN [raised |-> "pydantic.ValidationError", value |-> <<>>]
    ELSE [raised |-> "none", value |-> [k \in DOMAIN data |-> data[k].schema]]


(***************************************************************************)
(* Version pruning (component_caching.py:13-58, 209-221, 279-285).  A      *)
(* version string is held as the sequence of its parts, v.split("."): a    *)
(* part of digits is the number int() gives, "1.21.8" is <<1, 21, 8>>, and *)
(* a part int() rejects (such as "" or "pre1") is Unparsable.              *)
(***************************************************************************)
VERSION == <<1, 21, 8>>
Unparsable == -1

\* Python's tuple(a) > tuple(b): lexicographic, a proper prefix is smaller.
RECURSIVE TupleGreater(_, _)
TupleGreater(a, b) ==
    IF a = <<>> THEN FALSE
    ELSE IF b = <<>> THEN TRUE
    ELSE IF Head(a) # Head(b) THEN Head(a) > Head(b)
    ELSE TupleGreater(Tail(a), Tail(b))

\* _, *v = (int(part) for part in v.split(".")); if len(v) < 2: v.append(0)
VersionTail(v) == IF Len(Tail(v)) < 2 THEN Append(Tail(v), 0) ELSE Tail(v)

\* int(part) succeeds on every part, the first one included.
IntParts(v) == \A i \in 1..Len(v) : v[i] # Unparsable

\* compare_versions returns [raised, value]: int() raises ValueError on a
\* part it rejects.
compare_versions(v1, v2) ==
    IF ~IntParts(v1) \/ ~IntParts(v2) THEN [raised |-> "ValueError", value |-> 0]
    ELSE IF TupleGreater(VersionTail(v1), VersionTail(v2))
    THEN [raised |-> "none", value |-> 1]
    ELSE IF TupleGreater(VersionTail(v2), VersionTail(v1))
    THEN [raised |-> "none", value |-> -1]
    ELSE [raised |-> "none", value |-> 0]

\* An Attribute: its name and its value, a string literal holding a version
\* ("strlit"), another literal ("intlit"), a reference, or None.
Attribute(name, vk, ver) == [name |-> name, vk |-> vk, ver |-> ver]

\* The attribute is one whose version the loop compares.
Compared(attr) == attr.name \in {"until", "since"} /\ attr.vk = "strlit"

\* The check of one attribute in the loop of is_valid_with_attributes: TRUE
\* iff the attribute makes the function return False.
UntilRejects(attr, current_version) ==
    attr.vk = "strlit" /\ compare_versions(current_version, attr.ver).value >= 0
SinceRejects(attr, current_version) ==
    attr.vk = "strlit" /\ compare_versions(current_version, attr.ver).value < 0

\* for attr in attributes: ... (lines 44-56): [raised, value].
RECURSIVE AttributesLoop(_, _, _)
AttributesLoop(attributes, i, current_version) ==
    IF i > Len(attributes) THEN [raised |-> "none", value |-> TRUE]
    ELSE IF Compared(attributes[i])
            /\ compare_versions(current_version, attributes[i].ver).raised # "none"
    THEN [raised |-> "ValueError", value |-> FALSE]
    ELSE IF attributes[i].name = "until" /\ UntilRejects(attributes[i], current_version)
    THEN [raised |-> "none", value |-> FALSE]
    ELSE IF attributes[i].name = "since" /\ SinceRejects(attributes[i], current_version)
    THEN [raised |-> "none", value |-> FALSE]
    ELSE AttributesLoop(attributes, i + 1, current_version)

\* attributes is None (<<>>) or a list.
is_valid_with_attributes(attributes, current_version) ==
    IF attributes = None \/ attributes[1] = <<>> THEN [raised |-> "none", value |-> TRUE]
    ELSE AttributesLoop(attributes[1], 1, current_version)

\* A field of a struct as far as pruning reads it: a pair with its
\* attributes, or a spread.
AttributedPair(key, attributes) == [kind |-> "pair", key |-> key, attributes |-> attributes]
PlainSpread == [kind |-> "spread", key |-> "", attributes |-> None]

\* StructSchema.prune_on_version: is_valid_with_attributes(attributes) is
\* called with its default current_version, VERSION.  [raised, value]: the
\* exception that leaves the validator, or the fields kept.
RECURSIVE PruneFields(_)
PruneFields(fields) ==
    IF fields = <<>> THEN [raised |-> "none", value |-> <<>>]
    ELSE LET valid == IF Head(fields).kind = "pair"
                      THEN is_valid_with_attributes(Head(fields).attributes, VERSION)
                      ELSE [raised |-> "none", value |-> TRUE]
             rest == PruneFields(Tail(fields))
         IN IF valid.raised # "none" THEN [raised |-> valid.raised, value |-> <<>>]
            ELSE IF rest.raised # "none" THEN rest
            ELSE IF valid.value THEN [rest EXCEPT !.value = <<Head(fields)>> \o @]
            ELSE rest

\* Schema.prune_on_version on a node whose root is `root` (Absent: None) and
\* whose root carries `attributes`: [raised, value], value the root kept.
PruneSchema(root, attributes) ==
    IF root.kind = "none" THEN [raised |-> "none", value |-> Absent]
    ELSE LET valid == is_valid_with_attributes(attributes, VERSION) IN
         IF valid.raised # "none" THEN [raised |-> valid.raised, value |-> Absent]
         ELSE IF valid.value THEN [raised |-> "none", value |-> root]
         ELSE [raised |-> "none", value |-> Absent]


(***************************************************************************)
(* ItemType.validate_component (item/meta.py:205-247).                     *)
(***************************************************************************)
\* ctx.meta["item_component_schemas"]: the decoded component schemas.
ItemComponentSchemas ==
    [n \in {"minecraft:damage", "minecraft:food", "minecraft:entity_data",
            "minecraft:custom_data"} |->
        CASE n = "minecraft:damage" -> IntSchema(None)
          [] n = "minecraft:food" -> UnionSchema(<<IntSchema(None), BooleanSchema>>)
          [] n = "minecraft:entity_data" ->
                DispatcherSchema(<<DynamicIndex(<<JStr("type")>>)>>, "reg:entity")
          [] OTHER -> StructSchema(<<>>)]

\* The component names for which `"custom_data" in component_name` holds.
CustomDataNames == {"minecraft:custom_data", "custom_data"}

\* What validate_component returns (None, a ComponentError with its
\* suberrors, a NonExistentComponentError) or the exception that leaves it.
Component(outcome, suberrors, raised) ==
    [outcome |-> outcome, suberrors |-> suberrors, raised |-> raised]

validate_component(component_name, component) ==
    IF component_name \in CustomDataNames
    THEN Component("None", <<>>, Ok)
    ELSE IF component_name \in DOMAIN ItemComponentSchemas
    THEN LET r == LibValidate(component, ItemComponentSchemas[component_name],
                              <<JStr(component_name)>>, JNone, MaxDepth) IN
         IF r.exc = "none" THEN Component("None", <<>>, Ok)
         ELSE IF r.exc \in ValidationErrorClasses
         THEN Component("ComponentError", <<r>>, Ok)
         ELSE IF r.exc = "ExceptionGroup"
         THEN Component("ComponentError", r.sub, Ok)
         ELSE Component("raised", <<>>, r)
    ELSE Component("NonExistentComponentError", <<>>, Ok)

(***************************************************************************)
(* The inputs the operations are applied to.                               *)
(***************************************************************************)
\* All sequences over S of length at most n.
SeqsUpTo(S, n) == UNION {[1..k -> S] : k \in 0..n}

Scalars ==
    {JInt(n) : n \in 0..MaxInt}
        \cup {JStr("x"), JStr("zombie"), JBool(TRUE), JFloat(1), JNone}
Lists == {JList(q) : q \in SeqsUpTo({JInt(1), JStr("x"), JDict(<<>>)}, MaxLen)}

\* Dicts over the keys "a", "b" and "type"; "b" may hold a nested dict.
InnerDicts ==
    {JDict(f) :
        f \in UNION {{g \in [K -> {JInt(1), JStr("x"), JStr("zombie")}] :
                         /\ "a" \in K => g["a"] \in {JInt(1), JStr("x")}
                         /\ "type" \in K => g["type"] \in {JStr("zombie"), JStr("x")}} :
                     K \in SUBSET {"a", "type"}}}
ValuesOf(k) ==
    CASE k = "a" -> {JInt(1), JStr("x"), JList(<<JInt(1)>>), JList(<<JStr("x")>>)}
      [] k = "b" -> {JInt(1), JStr("x")} \cup InnerDicts
      [] OTHER -> {JStr("zombie"), JStr("x"), JInt(1)}
Dicts ==
    {JDict(f) : f \in UNION {{g \in [K -> Scalars \cup Lists \cup InnerDicts] :
                                 \A k \in K : g[k] \in ValuesOf(k)} :
                             K \in SUBSET {"a", "b", "type"}}}

\* The documents and schemas of the documented examples.
SpreadExample ==
    StructSchema(<<PairField("a", IntSchema(None), FALSE), SpreadField(StringSchema)>>)
SpreadAccepted == JDict([k \in {"a", "b", "c"} |-> IF k = "a" THEN JInt(1)
                                                  ELSE IF k = "b" THEN JStr("x")
                                                  ELSE JStr("y")])
SpreadRejected == JDict([k \in {"a", "b"} |-> IF k = "a" THEN JInt(1) ELSE JInt(2)])
\* List{item: Int, lengthRange: {min: 1, max: 3}} and the list [1, ..., n].
LengthExample == ListSchema(IntSchema(None), Some(ValueRange(Some(1), Some(3))))
IntList(n) == JList([i \in 1..n |-> JInt(i)])
ExampleInputs ==
    {<<IntList(n), LengthExample, <<JStr("minecraft:food")>>>> : n \in {0, 3, 4}} \cup
    {<<SpreadAccepted, SpreadExample, <<JStr("minecraft:food")>>>>,
     <<SpreadRejected, SpreadExample, <<JStr("minecraft:food")>>>>,
     <<JStr("abc"), UnionSchema(<<IntSchema(None), StringSchema>>),
       <<JStr("minecraft:food")>>>>}

\* Calls on the array schemas, and on a list of arrays: lists of ints and
\* floats against IntArray and FloatArray, lists of arrays and strings
\* against List{item: IntArray}.
ArrayInputs ==
    {<<JList(q), schema, <<JStr("minecraft:food")>>>> :
        q \in SeqsUpTo({JInt(1), JFloat(1)}, MaxLen),
        schema \in {IntArraySchema(None), FloatArraySchema(None),
                    IntArraySchema(Some(ValueRange(Some(1), None)))}}
        \cup {<<JList(q), ListSchema(IntArraySchema(None), None),
                <<JStr("minecraft:food")>>>> :
                  q \in SeqsUpTo({JList(<<JInt(1)>>), JList(<<>>), JStr("x")}, MaxLen)}

Paths == {<<>>, <<JStr("minecraft:food")>>, <<JStr("minecraft:food"), JStr("a")>>}

\* The dispatchers of the model.
Dispatchers ==
    {DispatcherSchema(ix, reg) :
        ix \in {<<>>,
                <<DynamicIndex(<<JStr("type")>>)>>,
                <<DynamicIndex(<<JStr("a")>>), DynamicIndex(<<JStr("type")>>)>>,
                <<StaticIndex("zombie")>>,
                <<StaticIndex("ghost")>>,
                <<StaticIndex("%fallback")>>},
        reg \in {"reg:entity"}}
        \cup {DispatcherSchema(<<StaticIndex("zombie")>>, reg) :
                  reg \in {"reg:bad", "reg:missing"}}

\* Schemas without members, items or fields of their own.
Leaves ==
    {StringSchema, IntSchema(None), IntSchema(Some(ValueRange(Some(1), Some(2)))),
     IntSchema(Some(ValueRange(Some(1), None))), IntSchema(Some(ValueRange(None, Some(1)))),
     BooleanSchema, FloatSchema(None), ByteSchema, Absent, IntArraySchema(None),
     TwoSpreads, ReferenceSchema("ref:int"), ReferenceSchema("ref:bad"),
     ReferenceSchema("ref:two_spreads"), ReferenceSchema("ref:missing"),
     ReferenceSchema("ref:tree")}

Unions ==
    {UnionSchema(ms) :
        ms \in SeqsUpTo({StringSchema, IntSchema(None), BooleanSchema, Absent,
                         IntArraySchema(None), TwoSpreads,
                         UnionSchema(<<IntSchema(None)>>),
                         ListSchema(IntSchema(None), None),
                         ListSchema(TwoSpreads, None)}, MaxMembers)}

ListSchemas ==
    {ListSchema(item, range) :
        item \in {IntSchema(None), StringSchema, TwoSpreads,
                  StructSchema(<<PairField("a", IntSchema(None), FALSE)>>),
                  UnionSchema(<<IntSchema(None)>>)},
        range \in {None, Some(ValueRange(Some(1), Some(MaxLen))),
                   Some(ValueRange(None, Some(1)))}}

\* The fields a generated struct is made of.
FieldMenu ==
    {PairField("a", IntSchema(None), FALSE),
     PairField("a", IntArraySchema(None), TRUE),
     PairField("b", StringSchema, FALSE),
     PairField("b", TwoSpreads, TRUE),
     PairField("b", DispatcherSchema(<<DynamicIndex(<<JStr("type")>>)>>, "reg:entity"),
               TRUE),
     PairField("type", UnionSchema(<<IntSchema(None), StringSchema>>), TRUE),
     DynamicKeyPairField(StringSchema),
     SpreadField(StringSchema),
     SpreadField(StructSchema(<<PairField("type", StringSchema, FALSE)>>))}

Structs == {StructSchema(fs) : fs \in SeqsUpTo(FieldMenu, MaxFields)}

\* The calls of validate_data: <<data, schema, path>>.
ValidateInputs ==
    ((Scalars \cup Lists \cup InnerDicts) \X (Leaves \cup Unions) \X Paths)
        \cup (Lists \X ListSchemas \X Paths)
        \cup ((Dicts \cup {JStr("x"), JList(<<>>)}) \X Structs
                 \X {<<>>, <<JStr("minecraft:food")>>})
        \cup ((InnerDicts \cup Lists \cup {JInt(1)}) \X Dispatchers
                 \X {<<JStr("minecraft:food")>>})
        \cup ExampleInputs
        \cup ArrayInputs

\* The parent argument of a call: None, the default, which is all that a
\* schema other than a dispatcher can be reached with (no other case reads
\* it); for a dispatcher also the document itself and an enclosing dict.
Parents(data, schema) ==
    IF schema.kind # "dispatcher" THEN {JNone}
    ELSE {JNone, data, JDict([type |-> JStr("zombie")]), JDict([a |-> JStr("skeleton")])}

\* Generated version strings, and the versions the documents name.
Versions ==
    UNION {[1..k -> 0..MaxVer] : k \in 1..MaxVerLen}
        \cup {<<1, 19>>, <<1, 20>>, <<1, 21>>, <<1, 21, 0>>, <<1, 21, 0, 0>>, VERSION}

\* The versions an attribute holds and a target is taken from.
PruneVersions ==
    {<<1>>, <<1, 0>>, <<1, 0, 0>>, <<1, 0, 0, 0>>, <<1, 1>>, <<2, 0>>,
     <<1, 19>>, <<1, 20>>, <<1, 21>>, <<1, 21, 0, 0>>, VERSION, <<1, 22>>}

\* Version strings with a part int() rejects: "x", "1.x", "1.21.x", "1..8".
UnparsableVersions ==
    {<<Unparsable>>, <<1, Unparsable>>, <<1, 21, Unparsable>>, <<1, Unparsable, 8>>}

Attributes ==
    {Attribute(name, "strlit", v) :
        name \in {"until", "since", "id"}, v \in PruneVersions \cup UnparsableVersions}
        \cup {Attribute(name, vk, <<>>) :
                  name \in {"until", "since", "id"}, vk \in {"intlit", "reference", "none"}}

AttributeLists == {None} \cup {Some(q) : q \in SeqsUpTo(Attributes, MaxAttrs)}

(***************************************************************************)
(* The default of the suberrors parameter of ValidationError.__init__      *)
(* (errors.py:22) is one list object, created when the class is defined    *)
(* and held by every error that is created without suberrors.              *)
(* default_suberrors is the content of that list.                          *)
(***************************************************************************)
\* A validator that hangs the later errors of an aggregate on its first
\* error: e.suberrors.append(...) on an error that holds the default list.
AppendedToFirstError(shared, r) ==
    IF Len(r.sub) >= 2 /\ r.sub[1].sub = <<>> THEN shared \o Tail(r.sub) ELSE shared

\* The default list after a call of validate_data with outcome r.  The call
\* appends to the lists it creates itself (errors, item_errors and
\* struct_errors: lines 124, 165, 201, 238, 328) and hands them to the
\* aggregated error; it never appends to the suberrors of an error.
DefaultSuberrors(shared, r) == shared

(***************************************************************************)
(* One McdocValidator shared by several threads.  memo holds the entries   *)
(* of the two lru_cache wrappers; callers holds, for each thread, where    *)
(* its call of a cached method stands.  The wrapper looks the path up,     *)
(* runs the body on a miss and stores what the body returned; the body     *)
(* builds its node in a local of the thread: Schema.model_validate decodes *)
(* the raw entry and then runs the after-validator prune_on_version.       *)
(***************************************************************************)
Threads == 1..MaxThreads
Methods == {"get_mcdoc_schema", "get_dispatcher_schema"}

\* A raw entry with the attributes of its root.
Versioned(schema, attributes) ==
    [malformed |-> FALSE, schema |-> schema, attributes |-> attributes]
UntilPast == Some(<<Attribute("until", "strlit", <<1, 20>>)>>)
SincePast == Some(<<Attribute("since", "strlit", <<1, 19>>)>>)

\* A corpus whose entries carry version attributes.  A schema entry is held
\* under the one key "root", a registry under its discriminants.
VersionedCorpus ==
    [method \in Methods |->
        IF method = "get_mcdoc_schema"
        THEN [p \in {"ref:int", "ref:old", "ref:bad"} |->
                 [k \in {"root"} |->
                     CASE p = "ref:int" -> Versioned(IntSchema(None), SincePast)
                       [] p = "ref:old" -> Versioned(StringSchema, UntilPast)
                       [] OTHER -> [malformed |-> TRUE, schema |-> Absent,
                                    attributes |-> None]]]
        ELSE [p \in {"reg:entity"} |->
                 [k \in {"zombie", "skeleton"} |->
                     IF k = "zombie" THEN Versioned(ZombieSchema, None)
                     ELSE Versioned(SkeletonSchema, UntilPast)]]]

\* The paths the threads call the methods with: those of the corpus and a
\* missing one.
SharedPaths == {"ref:int", "ref:old", "ref:bad", "reg:entity", "ref:missing"}
\* The calls the threads make: each method with the paths of its part of
\* the corpus and with the missing path.
SharedCalls ==
    {<<method, path>> \in Methods \X SharedPaths :
        path \in DOMAIN VersionedCorpus[method] \cup {"ref:missing"}}

NoEntries == [method \in Methods |-> [p \in SharedPaths |-> None]]

IdleCaller ==
    [pc |-> "idle", method |-> "", path |-> "", local |-> <<>>, result |-> <<>>,
     raised |-> "none", hit |-> FALSE]

\* Schema.model_validate up to the after-validator: the decoded roots with
\* their attributes, not pruned yet.
DecodedEntry(entry) ==
    [k \in DOMAIN entry |->
        [root |-> entry[k].schema, attributes |-> entry[k].attributes]]
\* Schema.prune_on_version on each node of the local.
PrunedEntry(local) ==
    [k \in DOMAIN local |->
        [local[k] EXCEPT !.root = PruneSchema(local[k].root, local[k].attributes).value]]
\* Schema.model_construct(None), the dummy the handler returns.
DummyEntry == [k \in {"root"} |-> [root |-> Absent, attributes |-> None]]
\* The node a caller is handed: the roots of the local.
NodeOf(local) == [k \in DOMAIN local |-> local[k].root]

\* A body that returns its node as soon as it is decoded.
ReturnsEarly(c) == c.pc \in {"decoded", "pruned"}
\* The body returns when model_validate has returned, after-validator
\* included (lines 67, 84), or with the dummy (lines 73, 91).
Returns(c) == c.pc = "pruned"

(***************************************************************************)
(* An item class and its components property (item/meta.py).  NoItem: no   *)
(* item class has been created yet.                                        *)
(***************************************************************************)
NoItem == [defined |-> FALSE]

\* A mapping with one more key, and without some keys.
Put(mapping, key, value) ==
    [k \in DOMAIN mapping \cup {key} |-> IF k = key THEN value ELSE mapping[k]]
Without(mapping, keys) == Restrict(mapping, DOMAIN mapping \ keys)

\* The class attributes an item definition may give: vanilla components,
\* the custom component "armor", and the special fields id and count.
ItemAttributes ==
    [k \in {"minecraft:damage", "minecraft:food", "armor", "id", "count"} |->
        CASE k = "minecraft:damage" -> <<JInt(1), JStr("x")>>
          [] k = "minecraft:food" -> <<JInt(1), JStr("x")>>
          [] k = "armor" -> <<JDict([value |-> JFloat(2)]), JDict(<<>>)>>
          [] k = "id" -> <<JStr("minecraft:stick")>>
          [] OTHER -> <<JInt(1)>>]
\* Every definition: each attribute is left out (0) or given one of its values.
ItemDefinitions ==
    {[k \in {a \in DOMAIN ItemAttributes : pick[a] > 0} |-> ItemAttributes[k][pick[k]]] :
        pick \in {f \in [DOMAIN ItemAttributes -> 0..2] :
                     \A k \in DOMAIN ItemAttributes : f[k] <= Len(ItemAttributes[k])}}

\* ItemType.__new__ (lines 104-118): the class with its empty caches.
\* accesses, resolutions, validations and displays count what has been done
\* with the class; returned and raised hold the outcome of the last access.
NewItem(attributes) ==
    [defined |-> TRUE, attributes |-> attributes,
     _component_cache |-> <<>>, _has_errored |-> FALSE, _components |-> <<>>,
     accesses |-> 0, resolutions |-> 0, validations |-> 0, displays |-> 0,
     returned |-> None, raised |-> "none"]

\* An item whose cache check never finds the mapping.
NeverCached(i) == FALSE
\* if self._components: (line 434): a dict that is not empty.
HasCachedComponents(i) == i._components # <<>>

\* Phase 2 (lines 456-459): the item metadata is merged in.
WithItemMetadata(original_components) ==
    Put(original_components, "custom_data", JDict([item_id |-> JStr("item")]))

\* Armor.render (component/armor.py:24-46): [raised, output].
RenderArmor(data) ==
    IF "value" \in DOMAIN data.dv
    THEN [raised |-> FALSE,
          output |-> [k \in {"attribute_modifiers"} |->
                         JList(<<JDict([type |-> JStr("armor")])>>)]]
    ELSE [raised |-> TRUE, output |-> <<>>]

\* handle_custom_components (lines 249-338) for the registered component
\* "armor": [resolved, errors, cache], the mapping after the loop, the
\* number of errors collected and _component_cache.
handle_custom_components(i, resolved_components) ==
    IF "armor" \notin DOMAIN resolved_components
    THEN [resolved |-> resolved_components, errors |-> 0, cache |-> i._component_cache]
    ELSE LET data == resolved_components["armor"]
             rest == Without(resolved_components, {"armor"})
             cached == "armor" \in DOMAIN i._component_cache
             rendered == IF cached
                         THEN [raised |-> FALSE, output |-> i._component_cache["armor"]]
                         ELSE RenderArmor(data)
         IN IF rendered.raised
            THEN [resolved |-> rest, errors |-> 1, cache |-> i._component_cache]
            ELSE [resolved |->
                     [k \in DOMAIN rest \cup DOMAIN rendered.output |->
                         IF k \in DOMAIN rendered.output THEN rendered.output[k]
                         ELSE IF k = "custom_data"
                         THEN JDict(Put(rest[k].dv, "custom_components",
                                        JDict([armor |-> data])))
                         ELSE rest[k]],
                  errors |-> 0,
                  cache |-> Put(i._component_cache, "armor", rendered.output)]

\* The verdict of calculate_errors on the validated components: [raised,
\* found], the exception that leaves validate_component, or whether any
\* error was collected (and then displayed).
ErrorsFound(component_errors, checked) ==
    IF \E k \in DOMAIN checked : checked[k].outcome = "raised"
    THEN [raised |-> (CHOOSE e \in {checked[k].raised.exc :
                                      k \in {n \in DOMAIN checked :
                                                checked[n].outcome = "raised"}} : TRUE),
          found |-> FALSE]
    ELSE [raised |-> "none",
          found |-> component_errors > 0
                      \/ \E k \in DOMAIN checked : checked[k].outcome # "None"]

\* calculate_errors (lines 545-686): every output component is validated.
calculate_errors(component_errors, output_components) ==
    ErrorsFound(component_errors,
                [k \in DOMAIN output_components |->
                    validate_component(k, output_components[k])])

\* Phase 7 (lines 489-492) and what the access leaves behind: the class
\* after an access that ran the phases, given the outcome of Phase 6.
StoreComponents(i, cache, output_components, checked) ==
    IF checked.raised # "none"
    THEN [i EXCEPT !.accesses = @ + 1, !.resolutions = @ + 1,
                   !._component_cache = cache,
                   !.validations = IF i._has_errored THEN @ ELSE @ + 1,
                   !.returned = None, !.raised = checked.raised]
    ELSE [i EXCEPT !.accesses = @ + 1, !.resolutions = @ + 1,
                   !._component_cache = cache,
                   !.validations = IF i._has_errored THEN @ ELSE @ + 1,
                   !._has_errored = checked.found,
                   !.displays = IF ~i._has_errored /\ checked.found
                                THEN @ + 1 ELSE @,
                   !._components = output_components,
                   !.returned = Some(output_components),
                   !.raised = "none"]

\* Phases 4 to 6 (lines 470-487): id and count are popped, and the errors
\* are calculated unless the class has errored before.
CheckComponents(i, custom, output_components) ==
    StoreComponents(i, custom.cache, output_components,
                    IF i._has_errored THEN [raised |-> "none", found |-> TRUE]
                    ELSE calculate_errors(custom.errors, output_components))
PopSpecialFields(i, custom) ==
    CheckComponents(i, custom, Without(custom.resolved, {"id", "count"}))

\* The body of the components property after the cache check (lines
\* 437-492): the class after the access.
ResolveComponents(i) ==
    PopSpecialFields(i, handle_custom_components(i, WithItemMetadata(i.attributes)))

\* ItemType.components (lines 416-492)
components(i) ==
    IF HasCachedComponents(i)
    THEN [i EXCEPT !.accesses = @ + 1, !.returned = Some(i._components),
                   !.raised = "none"]
    ELSE ResolveComponents(i)

(***************************************************************************)
(* The state machine: from idle, one operation is applied to one input and *)
(* the call and its outcome are recorded; Return goes back to idle.  The   *)
(* validator keeps its caches from call to call, and doc is the document   *)
(* of a validation as the call leaves it.                                  *)
(***************************************************************************)
Init ==
    /\ op = "idle"
    /\ args = <<>>
    /\ ret = Ok
    /\ schema_cache = EmptyCache
    /\ dispatcher_cache = EmptyCache
    /\ decodes = [p \in ResolverPaths |-> 0]
    /\ doc = JNone
    /\ default_suberrors = <<>>
    /\ memo = NoEntries
    /\ callers = [t \in Threads |-> IdleCaller]
    /\ item_class = NoItem

\* No cached method of the validator has returned yet.
Untouched == schema_cache = EmptyCache /\ dispatcher_cache = EmptyCache

\* What the bodies of the cached methods return for each path.
SchemaBody == [p \in ResolverPaths |-> get_mcdoc_schema(p)]
DispatcherBody == [p \in ResolverPaths |-> get_dispatcher_schema(p)]

\* The validator after the calls of `resolved` returned.
Resolve(resolved) ==
    LET schemas == PathsOf("get_mcdoc_schema", resolved)
        registries == PathsOf("get_dispatcher_schema", resolved)
    IN /\ schema_cache' = Stored(schema_cache, schemas, SchemaBody)
       /\ dispatcher_cache' = Stored(dispatcher_cache, registries, DispatcherBody)
       /\ decodes' = Decoded(Decoded(decodes, schema_cache, schemas),
                             dispatcher_cache, registries)
       /\ \A p \in ResolverPaths : decodes'[p] <= MaxDecodes

\* A call that takes no validator.
NoValidator ==
    /\ Untouched
    /\ UNCHANGED <<schema_cache, dispatcher_cache, decodes>>
    /\ doc' = JNone

\* The calls of validate_data explored on a validator: all of them on a new
\* one, and those of a reference or a dispatcher on one whose caches hold
\* entries (no other call begins with a cached method).
UsedValidatorInputs ==
    {in \in ValidateInputs : in[2].kind \in {"reference", "dispatcher"}}
InputsOf(untouched) == IF untouched THEN ValidateInputs ELSE UsedValidatorInputs

\* McdocValidator.get_mcdoc_schema(path)
GetMcdocSchema ==
    /\ op = "idle"
    /\ \E path \in ResolverPaths :
          LET got == Cached(schema_cache, path, get_mcdoc_schema(path)) IN
          /\ args' = [path |-> path, hit |-> Memoized(schema_cache, path)]
          /\ ret' = got
          /\ Resolve(IF got.raised = "none" THEN {<<"get_mcdoc_schema", path>>} ELSE {})
    /\ op' = "get_mcdoc_schema"
    /\ UNCHANGED <<default_suberrors, memo, callers, item_class>>
    /\ doc' = JNone

\* McdocValidator.get_dispatcher_schema(path)
GetDispatcherSchema ==
    /\ op = "idle"
    /\ \E path \in ResolverPaths :
          LET got == Cached(dispatcher_cache, path, get_dispatcher_schema(path)) IN
          /\ args' = [path |-> path, hit |-> Memoized(dispatcher_cache, path)]
          /\ ret' = got
          /\ Resolve(IF got.raised = "none"
                     THEN {<<"get_dispatcher_schema", path>>} ELSE {})
    /\ op' = "get_dispatcher_schema"
    /\ UNCHANGED <<default_suberrors, memo, callers, item_class>>
    /\ doc' = JNone

\* resolve_schema_reference(path, mcdoc)
ResolveSchemaReference ==
    /\ op = "idle"
    /\ \E path \in ResolverPaths :
          /\ args' = [path |-> path]
          /\ ret' = resolve_schema_reference(path)
    /\ op' = "resolve_schema_reference"
    /\ UNCHANGED <<default_suberrors, memo, callers, item_class>>
    /\ UNCHANGED <<schema_cache, dispatcher_cache, decodes>>
    /\ doc' = JNone

\* dict(create_schemas(registry)), for the registries of the corpus
CreateSchemas ==
    /\ op = "idle"
    /\ \E registry \in DOMAIN McdocDispatchers :
          /\ args' = [registry |-> registry]
          /\ ret' = create_schemas(McdocDispatchers[registry])
    /\ op' = "create_schemas"
    /\ UNCHANGED <<default_suberrors, memo, callers, item_class>>
    /\ UNCHANGED <<schema_cache, dispatcher_cache, decodes>>
    /\ doc' = JNone

\* McdocValidator.validate_data(data, schema, path, parent)
ValidateLib ==
    /\ op = "idle"
    /\ \E in \in InputsOf(Untouched) :
          \E parent \in Parents(in[1], in[2]) :
              /\ args' = [data |-> in[1], schema |-> in[2], path |-> in[3],
                          parent |-> parent]
              /\ ret' = LibValidate(in[1], in[2], in[3], parent, MaxDepth)
              /\ Resolve(LibResolved(in[1], in[2], in[3], parent, MaxDepth))
              /\ doc' = LibDocument(in[1], in[2], in[3], parent, MaxDepth)
              /\ default_suberrors' = DefaultSuberrors(default_suberrors, ret')
    /\ op' = "lib"
    /\ UNCHANGED <<memo, callers, item_class>>

\* component_caching.validate_data(data, schema, mcdoc, path)
ValidatePlugin ==
    /\ op = "idle"
    /\ Untouched
    /\ \E in \in ValidateInputs :
          /\ args' = [data |-> in[1], schema |-> in[2], path |-> in[3]]
          /\ ret' = PluginValidate(in[1], in[2], in[3], MaxDepth)
          /\ doc' = PluginDocument(in[1], in[2], in[3], MaxDepth)
    /\ op' = "plugin"
    /\ UNCHANGED <<default_suberrors, memo, callers, item_class>>
    /\ UNCHANGED <<schema_cache, dispatcher_cache, decodes>>

\* ItemType.validate_component(component_name, component)
ValidateComponent ==
    /\ op = "idle"
    /\ \E name \in DOMAIN ItemComponentSchemas \cup {"minecraft:nope"},
          component \in Scalars \cup InnerDicts :
          LET validated == name \notin CustomDataNames
                               /\ name \in DOMAIN ItemComponentSchemas
          IN /\ args' = [component_name |-> name, component |-> component]
             /\ ret' = validate_component(name, component)
             /\ Resolve(IF validated
                        THEN LibResolved(component, ItemComponentSchemas[name],
                                         <<JStr(name)>>, JNone, MaxDepth)
                        ELSE {})
             /\ doc' = IF validated
                       THEN LibDocument(component, ItemComponentSchemas[name],
                                        <<JStr(name)>>, JNone, MaxDepth)
                       ELSE component
             /\ default_suberrors' =
                   IF validated
                   THEN DefaultSuberrors(default_suberrors,
                            LibValidate(component, ItemComponentSchemas[name],
                                        <<JStr(name)>>, JNone, MaxDepth))
                   ELSE default_suberrors
    /\ op' = "validate_component"
    /\ UNCHANGED <<memo, callers, item_class>>

\* compare_versions(v1, v2)
CompareVersions ==
    /\ op = "idle"
    /\ \E v1 \in Versions \cup UnparsableVersions,
          v2 \in Versions \cup UnparsableVersions :
          /\ args' = [v1 |-> v1, v2 |-> v2]
          /\ ret' = compare_versions(v1, v2)
    /\ op' = "compare_versions"
    /\ UNCHANGED <<default_suberrors, memo, callers, item_class>>
    /\ NoValidator

\* is_valid_with_attributes(attributes, current_version)
IsValidWithAttributes ==
    /\ op = "idle"
    /\ \E attributes \in AttributeLists, target \in PruneVersions :
          /\ args' = [attributes |-> attributes, target |-> target]
          /\ ret' = is_valid_with_attributes(attributes, target)
    /\ op' = "is_valid_with_attributes"
    /\ UNCHANGED <<default_suberrors, memo, callers, item_class>>
    /\ NoValidator

\* StructSchema.prune_on_version, for a struct of two fields and a spread.
PruneOnVersion ==
    /\ op = "idle"
    /\ \E a1 \in Attributes, a2 \in Attributes :
          /\ args' = [fields |-> <<AttributedPair("a", Some(<<a1>>)), PlainSpread,
                                   AttributedPair("b", Some(<<a2>>))>>]
          /\ ret' = PruneFields(args'.fields)
    /\ op' = "prune_on_version"
    /\ UNCHANGED <<default_suberrors, memo, callers, item_class>>
    /\ NoValidator

\* Schema.prune_on_version, for a decoded node and its attributes.
PruneSchemaOnVersion ==
    /\ op = "idle"
    /\ \E root \in {Absent, StringSchema, IntSchema(None), TwoSpreads},
          attributes \in AttributeLists :
          /\ args' = [root |-> root, attributes |-> attributes]
          /\ ret' = PruneSchema(root, attributes)
    /\ op' = "schema_prune_on_version"
    /\ UNCHANGED <<default_suberrors, memo, callers, item_class>>
    /\ NoValidator

\* The call is over.
Return ==
    /\ op # "idle"
    /\ op' = "idle"
    /\ UNCHANGED <<default_suberrors, memo, callers, item_class>>
    /\ args' = <<>>
    /\ ret' = Ok
    /\ doc' = JNone
    /\ UNCHANGED <<schema_cache, dispatcher_cache, decodes>>

Next ==
    \/ GetMcdocSchema
    \/ GetDispatcherSchema
    \/ ResolveSchemaReference
    \/ CreateSchemas
    \/ ValidateLib
    \/ ValidatePlugin
    \/ ValidateComponent
    \/ CompareVersions
    \/ IsValidWithAttributes
    \/ PruneOnVersion
    \/ PruneSchemaOnVersion
    \/ Return

Spec == Init /\ [][Next]_vars

(***************************************************************************)
(* Concurrent calls of the cached methods on one validator.  A thread may  *)
(* be preempted between any two of its steps; a step of the wrapper (the   *)
(* lookup, the store) is atomic, as the dict operations of lru_cache are.  *)
(***************************************************************************)
\* self.get_mcdoc_schema(path) or self.get_dispatcher_schema(path) begins.
\* The sequential calls and the item class stay as they are.
SequentialUnchanged ==
    UNCHANGED <<op, args, ret, schema_cache, dispatcher_cache, decodes, doc,
                default_suberrors, item_class>>

CallResolver(t) ==
    /\ callers[t].pc = "idle"
    /\ \E call \in SharedCalls :
          callers' = [callers EXCEPT ![t] =
                         [IdleCaller EXCEPT !.pc = "lookup", !.method = call[1],
                                            !.path = call[2]]]
    /\ UNCHANGED memo
    /\ SequentialUnchanged

\* The wrapper's lookup: a hit returns the stored node.
Lookup(t) ==
    LET c == callers[t] IN
    /\ c.pc = "lookup"
    /\ callers' = [callers EXCEPT ![t] =
                      IF Memoized(memo[c.method], c.path)
                      THEN [c EXCEPT !.pc = "done", !.hit = TRUE,
                                     !.result = memo[c.method][c.path][1]]
                      ELSE [c EXCEPT !.pc = "body"]]
    /\ UNCHANGED memo
    /\ SequentialUnchanged

\* The body up to the decoded node: a missing path leaves the method with
\* UnboundLocalError, a malformed entry gives the dummy.
Decode(t) ==
    LET c == callers[t]
        corpus == VersionedCorpus[c.method]
    IN /\ c.pc = "body"
       /\ callers' = [callers EXCEPT ![t] =
             IF c.path \notin DOMAIN corpus
             THEN [c EXCEPT !.pc = "done", !.raised = "UnboundLocalError"]
             ELSE IF \E k \in DOMAIN corpus[c.path] : corpus[c.path][k].malformed
             THEN [c EXCEPT !.pc = "pruned", !.local = DummyEntry]
             ELSE [c EXCEPT !.pc = "decoded", !.local = DecodedEntry(corpus[c.path])]]
       /\ UNCHANGED memo
       /\ SequentialUnchanged

\* The after-validator prunes the thread's node.
Prune(t) ==
    LET c == callers[t] IN
    /\ c.pc = "decoded"
    /\ callers' = [callers EXCEPT ![t] =
                      [c EXCEPT !.pc = "pruned", !.local = PrunedEntry(c.local)]]
    /\ UNCHANGED memo
    /\ SequentialUnchanged

\* The body returns and the wrapper stores what it returned.
StoreAndReturn(t) ==
    LET c == callers[t] IN
    /\ c.pc \in {"decoded", "pruned"}
    /\ Returns(c)
    /\ memo' = [memo EXCEPT ![c.method][c.path] = Some(NodeOf(c.local))]
    /\ callers' = [callers EXCEPT ![t] =
                      [c EXCEPT !.pc = "done", !.result = NodeOf(c.local)]]
    /\ SequentialUnchanged

\* The caller has its node (or its exception) and goes on.
Finish(t) ==
    /\ callers[t].pc = "done"
    /\ callers' = [callers EXCEPT ![t] = IdleCaller]
    /\ UNCHANGED memo
    /\ SequentialUnchanged

ConcurrentNext ==
    \E t \in Threads :
       \/ CallResolver(t)
       \/ Lookup(t)
       \/ Decode(t)
       \/ Prune(t)
       \/ StoreAndReturn(t)
       \/ Finish(t)

ConcurrentSpec == Init /\ [][ConcurrentNext]_vars

(***************************************************************************)
(* An item class is created and its components property is read.           *)
(***************************************************************************)
\* The calls on the validator stay as they are.
ValidatorUnchanged ==
    UNCHANGED <<op, args, ret, schema_cache, dispatcher_cache, decodes, doc,
                default_suberrors, memo, callers>>

\* class ...(item): the metaclass creates the class.
DefineItem ==
    /\ ~item_class.defined
    /\ \E attributes \in ItemDefinitions : item_class' = NewItem(attributes)
    /\ ValidatorUnchanged

\* .components is read.
Components ==
    /\ item_class.defined
    /\ item_class.accesses < MaxAccesses
    /\ item_class' = components(item_class)
    /\ ValidatorUnchanged

ItemNext ==
    \/ DefineItem
    \/ Components

ItemSpec == Init /\ [][ItemNext]_vars



(***************************************************************************)
(* The properties.  Each is a predicate on the recorded call (op, args)    *)
(* and its outcome (ret); the outcome of a nested call is computed by the  *)
(* validator itself, with the arguments the enclosing case passes.         *)
(***************************************************************************)
\* The outcome is one of the errors that report a defect of the data.
IsDataError(r) == r.exc \in ValidationErrorClasses \cup {"ExceptionGroup"}

\* The call is validate_data of the named implementation on the named kind.
LibCall(kind) == op = "lib" /\ args.schema.kind = kind
AnyCall(kind) == op \in {"lib", "plugin"} /\ args.schema.kind = kind

\* Validation of the call's data against member i of its union alone.
MemberOutcome(i) ==
    IF op = "lib"
    THEN LibValidate(args.data, args.schema.members[i], args.path, JNone, MaxDepth - 1)
    ELSE PluginValidate(args.data, args.schema.members[i], args.path, MaxDepth - 1)

\* Validation of element i of the call's list against the item schema.
ItemOutcome(i) ==
    LibValidate(args.data.lv[i], args.schema.item, Append(args.path, JInt(i - 1)),
                args.data, MaxDepth - 1)

\* Field i of the call's struct is a Pair with a string key.
NamedField(i) ==
    args.schema.fields[i].kind = "pair" /\ ~args.schema.fields[i].key_is_schema
NamedKeys == {args.schema.fields[i].key : i \in {j \in DOMAIN args.schema.fields : NamedField(j)}}
SpreadFields == {i \in DOMAIN args.schema.fields : args.schema.fields[i].kind = "spread"}

\* Validation of the value under the key of named field i, present in the data.
FieldOutcome(i) ==
    LET field == args.schema.fields[i] IN
    LibValidate(args.data.dv[field.key], field.type,
                Append(args.path, JStr(field.key)), args.data, MaxDepth - 1)

\* Named field i fails: present with a value its schema does not validate,
\* or required and missing.
FieldFails(i) ==
    LET field == args.schema.fields[i] IN
    /\ NamedField(i)
    /\ IF field.key \in DOMAIN args.data.dv
       THEN FieldOutcome(i).exc # "none"
       ELSE ~field.optional
FailingFields == {i \in DOMAIN args.schema.fields : FieldFails(i)}

\* The suberrors of the outcome that name the key.
ErrorsFor(key) == {j \in DOMAIN ret.sub : ret.sub[j].name = JStr(key)}

\* The named fields of the struct have distinct keys.
DistinctKeys ==
    \A i, j \in DOMAIN args.schema.fields :
        (NamedField(i) /\ NamedField(j) /\ i # j)
            => args.schema.fields[i].key # args.schema.fields[j].key

(***************************************************************************)
(* C1: validating a dict against a struct attempts every named Pair field  *)
(* whatever happened to the earlier ones: the call raises the struct error *)
(* and that error carries exactly one suberror for each failing named      *)
(* field (present with an invalid value, or required and missing).         *)
(* Stated for a caller's non-empty path and a well-formed schema: distinct *)
(* keys, at most one Spread, no nested struct with two Spreads.            *)
(***************************************************************************)
C1_StructAttemptsEveryField ==
    (/\ LibCall("struct")
     /\ args.data.t = "dict"
     /\ args.path # <<>>
     /\ DistinctKeys
     /\ Cardinality(SpreadFields) <= 1
     /\ \A i \in FailingFields :
           args.schema.fields[i].key \in DOMAIN args.data.dv
               => FieldOutcome(i).exc # "ValueError"
     /\ FailingFields # {})
        => /\ ret.exc = "ValidationError"
           /\ ret.expected = "dict"
           /\ \A i \in FailingFields :
                 Cardinality(ErrorsFor(args.schema.fields[i].key)) = 1

(***************************************************************************)
(* C2: a union accepts the data whenever at least one member validates it, *)
(* whatever the members before it raised, and the members after the first  *)
(* validating one have no part in the outcome.                             *)
(***************************************************************************)
C2_UnionAcceptsOnAnyMember ==
    (/\ AnyCall("union")
     /\ args.path # <<>>
     /\ \E i \in DOMAIN args.schema.members : MemberOutcome(i).exc = "none")
        => ret = Ok

(***************************************************************************)
(* C3: when every member of a non-empty union fails for the data, the call *)
(* raises one ValidationError tagged "union" whose suberrors are the       *)
(* members' errors in declaration order and whose message reports the     *)
(* number of members, for every non-empty path; validate_component, which  *)
(* passes the path [component_name], then returns a ComponentError.        *)
(***************************************************************************)
C3_UnionErrorOnEveryPath ==
    /\ (/\ LibCall("union")
        /\ args.schema.members # <<>>
        /\ args.path # <<>>
        /\ \A i \in DOMAIN args.schema.members : IsDataError(MemberOutcome(i)))
           => /\ ret.exc = "ValidationError"
              /\ ret.expected = "union"
              /\ ret.sub = [i \in DOMAIN args.schema.members |-> MemberOutcome(i)]
              /\ ret.msg = <<"Data failed to validate against any of the union members",
                             Len(args.schema.members)>>
    /\ (/\ op = "validate_component"
        /\ args.component_name = "minecraft:food"
        /\ args.component.t \notin {"int", "bool"})
           => ret.outcome = "ComponentError"

\* Validation of the value under a key no Pair names against the schema of
\* the struct's one Spread, and the keys whose value it does not validate.
SpreadOutcome(key) ==
    LibValidate(args.data.dv[key], args.schema.fields[CHOOSE i \in SpreadFields : TRUE].type,
                Append(args.path, JStr(key)), args.data, MaxDepth - 1)
RejectedKeys ==
    {key \in DOMAIN args.data.dv \ NamedKeys : SpreadOutcome(key).exc # "none"}

(***************************************************************************)
(* C4: in a struct with one Spread whose named fields all validate, every  *)
(* data key no Pair names is validated on its own against the Spread       *)
(* schema: the call succeeds iff each such value validates, and otherwise  *)
(* reports exactly one error for each key whose value does not.  So        *)
(* Struct{a: Int, spread: String} accepts {"a": 1, "b": "x", "c": "y"}     *)
(* and rejects {"a": 1, "b": 2} with one error, for key "b".               *)
(***************************************************************************)
C4_SpreadValidatesEachKey ==
    (/\ LibCall("struct")
     /\ args.data.t = "dict"
     /\ args.path # <<>>
     /\ DistinctKeys
     /\ Cardinality(SpreadFields) = 1
     /\ FailingFields = {}
     /\ \A key \in RejectedKeys : IsDataError(SpreadOutcome(key)))
        => /\ ret = Ok <=> RejectedKeys = {}
           /\ RejectedKeys # {}
                 => /\ ret.exc = "ValidationError"
                    /\ Len(ret.sub) = Cardinality(RejectedKeys)
                    /\ \A key \in RejectedKeys : Cardinality(ErrorsFor(key)) = 1

\* The discriminants the call obtains, and the first of them the registry holds.
Discriminants == LibIndices(args.parent, args.schema.parallel_indices, 1, <<>>)
Registry == get_dispatcher_schema(args.schema.registry)
Selecting ==
    {i \in DOMAIN Discriminants.types :
        /\ Discriminants.types[i].typ.t = "str"
        /\ Discriminants.types[i].typ.sv \in DOMAIN Registry.value}
\* The call is a dispatcher call on a dict with a decoded registry whose
\* discriminants were all obtained.
Dispatching ==
    /\ LibCall("dispatcher")
    /\ args.data.t = "dict"
    /\ args.path # <<>>
    /\ Registry.raised = "none" /\ Registry.is_dict
    /\ Discriminants.raised = "none"
    /\ \A i \in DOMAIN Discriminants.types : Discriminants.types[i].typ.t = "str"
Selected ==
    Registry.value[Discriminants.types[CHOOSE i \in Selecting :
                                           \A j \in Selecting : i <= j].typ.sv]
(***************************************************************************)
(* C5: when the discriminant of a dispatcher selects a registry entry, the *)
(* selected schema is applied to the entire data, the key the discriminant *)
(* was read from included: the outcome of the call is the outcome of       *)
(* validating the whole data against the selected schema.                  *)
(***************************************************************************)
C5_DispatcherAppliesWholeData ==
    (Dispatching /\ Selecting # {})
        => ret = LibValidate(args.data, Selected, args.path, args.data, MaxDepth - 1)

(***************************************************************************)
(* C6: when no parallel index of a dispatcher yields a discriminant, or no *)
(* discriminant obtained is a key of the registry, the call fails with a   *)
(* validation error for the dispatcher: it neither succeeds nor raises an  *)
(* exception of another kind.                                              *)
(***************************************************************************)
C6_DispatcherUnresolvedIsValidationError ==
    (/\ LibCall("dispatcher")
     /\ args.data.t = "dict"
     /\ args.path # <<>>
     /\ Registry.raised = "none" /\ Registry.is_dict
     /\ \/ Discriminants.raised # "none"
        \/ /\ \A i \in DOMAIN Discriminants.types : Discriminants.types[i].typ.t = "str"
           /\ Selecting = {})
        => ret.exc \in ValidationErrorClasses

(***************************************************************************)
(* C7: a struct schema that holds two Spread fields raises the schema      *)
(* definition error (ValueError) for every data value: a dict or not,      *)
(* whatever its keys.                                                      *)
(***************************************************************************)
C7_TwoSpreadsAlwaysValueError ==
    (/\ AnyCall("struct")
     /\ args.path # <<>>
     /\ Cardinality(SpreadFields) >= 2)
        => ret.exc = "ValueError"

\* Some error of the tree below r is a schema definition error.
RECURSIVE HoldsSchemaDefinitionError(_)
HoldsSchemaDefinitionError(r) ==
    \E j \in DOMAIN r.sub :
        r.sub[j].exc = "ValueError" \/ HoldsSchemaDefinitionError(r.sub[j])

\* The loop of the enclosing case goes on after the nested outcome r.
LoopGoesOn(r) == r.exc = "none" \/ r.exc \in ValidationErrorClasses

\* Nested call i of the enclosing call is made and raises ValueError.
UnionMemberRaises(i) ==
    /\ MemberOutcome(i).exc = "ValueError"
    /\ \A j \in 1..(i - 1) :
          \/ MemberOutcome(j).exc \in ValidationErrorClasses
          \/ MemberOutcome(j).exc = "none" /\ args.schema.members[j].kind = "none"
ListItemRaises(i) ==
    /\ LengthCheck(args.data, args.schema.length_range, args.path, "list").exc = "none"
    /\ ItemOutcome(i).exc = "ValueError"
    /\ \A j \in 1..(i - 1) : LoopGoesOn(ItemOutcome(j))
StructFieldRaises(i) ==
    /\ NamedField(i)
    /\ args.schema.fields[i].key \in DOMAIN args.data.dv
    /\ FieldOutcome(i).exc = "ValueError"
    /\ Cardinality({j \in SpreadFields : j < i}) <= 1
    /\ \A j \in 1..(i - 1) :
          (NamedField(j) /\ args.schema.fields[j].key \in DOMAIN args.data.dv)
              => LoopGoesOn(FieldOutcome(j))

\* The same call on the schema cut after member or field i.
CutAfter(i) ==
    IF args.schema.kind = "union"
    THEN LibValidate(args.data, UnionSchema(SubSeq(args.schema.members, 1, i)),
                     args.path, args.parent, MaxDepth)
    ELSE LibValidate(args.data, StructSchema(SubSeq(args.schema.fields, 1, i)),
                     args.path, args.parent, MaxDepth)
\* The same call on the list cut after element i.
CutListAfter(i) ==
    LibValidate(JList(SubSeq(args.data.lv, 1, i)),
                [args.schema EXCEPT !.length_range = None],
                args.path, args.parent, MaxDepth)

(***************************************************************************)
(* C8: a schema definition error (ValueError) raised by a nested           *)
(* validation leaves the enclosing union, list or struct unchanged: the    *)
(* outcome of the enclosing call is that very error, no error tree ever    *)
(* holds a ValueError, and the members, elements and fields after the one  *)
(* that raised have no part in the outcome.                                *)
(***************************************************************************)
C8_SchemaDefinitionErrorPropagates ==
    /\ op = "lib" => ~HoldsSchemaDefinitionError(ret)
    /\ LibCall("union") =>
          \A i \in DOMAIN args.schema.members :
              UnionMemberRaises(i) => ret = MemberOutcome(i) /\ ret = CutAfter(i)
    /\ (LibCall("list") /\ args.data.t = "list") =>
          \A i \in DOMAIN args.data.lv :
              ListItemRaises(i) => ret = ItemOutcome(i) /\ ret = CutListAfter(i)
    /\ (LibCall("struct") /\ args.data.t = "dict") =>
          \A i \in DOMAIN args.schema.fields :
              StructFieldRaises(i) => ret = FieldOutcome(i) /\ ret = CutAfter(i)

\* A struct call in which an earlier field failed with a data error and a
\* later field's nested struct raised the schema definition error.
C8_Witness ==
    /\ LibCall("struct")
    /\ args.data.t = "dict"
    /\ \E i \in DOMAIN args.schema.fields :
          /\ StructFieldRaises(i)
          /\ \E j \in 1..(i - 1) :
                /\ NamedField(j)
                /\ args.schema.fields[j].key \in DOMAIN args.data.dv
                /\ FieldOutcome(j).exc \in ValidationErrorClasses
    /\ ret.exc = "ValueError"

\* The version order of the documents: the first component is dropped, the
\* shorter version is padded with zeros, the rest compares left to right.
Padded(v, n) == [i \in 1..n |-> IF i <= Len(v) THEN v[i] ELSE 0]
VersionOrder(a, b) ==
    LET n == IF Len(a) > Len(b) THEN Len(a) - 1 ELSE Len(b) - 1
        x == Padded(Tail(a), n)
        y == Padded(Tail(b), n)
    IN IF TupleGreater(x, y) THEN 1 ELSE IF TupleGreater(y, x) THEN -1 ELSE 0
AttributeList == IF args.attributes = None THEN <<>> ELSE args.attributes[1]
(***************************************************************************)
(* C9: is_valid_with_attributes(attributes, target) is true iff the target *)
(* is strictly less than the version of every "until" attribute with a     *)
(* string literal and at least the version of every "since" attribute with *)
(* a string literal, versions being compared component by component after  *)
(* the first, missing trailing components counting as 0; other attributes  *)
(* never matter.                                                           *)
(***************************************************************************)
C9_ValidIffWithinSinceUntil ==
    (op = "is_valid_with_attributes" /\ ret.raised = "none")
        => (ret.value <=> \A i \in DOMAIN AttributeList :
                        LET attr == AttributeList[i] IN
                        /\ (attr.name = "until" /\ attr.vk = "strlit")
                              => VersionOrder(args.target, attr.ver) < 0
                        /\ (attr.name = "since" /\ attr.vk = "strlit")
                              => VersionOrder(args.target, attr.ver) >= 0)

\* The version with another first component.
OtherFirst(v) == <<Head(v) + 1>> \o Tail(v)
(***************************************************************************)
(* C10: compare_versions counts missing trailing components as 0 and       *)
(* ignores the first component: appending ".0" to either argument, or      *)
(* changing the first component of either, never changes the result.       *)
(***************************************************************************)
C10_CompareIgnoresTrailingZeros ==
    (op = "compare_versions" /\ ret.raised = "none")
        => /\ ret = compare_versions(Append(args.v1, 0), args.v2)
           /\ ret = compare_versions(args.v1, Append(args.v2, 0))
           /\ ret = compare_versions(OtherFirst(args.v1), args.v2)
           /\ ret = compare_versions(args.v1, OtherFirst(args.v2))

\* The length of the call's list lies within the length range of its schema,
\* each bound counting only when present.
LengthInRange ==
    LET n == Len(args.data.lv)
        r == args.schema.length_range
    IN r = None \/ /\ (r[1].min = None \/ r[1].min[1] <= n)
                   /\ (r[1].max = None \/ n <= r[1].max[1])
\* The same call on the list schema without its length range.
WithoutLengthRange ==
    IF op = "lib"
    THEN LibValidate(args.data, [args.schema EXCEPT !.length_range = None],
                     args.path, args.parent, MaxDepth)
    ELSE PluginValidate(args.data, [args.schema EXCEPT !.length_range = None],
                        args.path, MaxDepth)

(***************************************************************************)
(* C11: a list is accepted with respect to its length iff                  *)
(* min <= len <= max, both inclusive, each bound checked only when         *)
(* present: within the range the outcome is that of the items alone, and   *)
(* outside it the call raises the length error, which has no suberrors.    *)
(* List{item: Int, lengthRange {min: 1, max: 3}} rejects [] and [1,2,3,4]  *)
(* and accepts [1,2,3].                                                    *)
(***************************************************************************)
C11_ListLengthRange ==
    (AnyCall("list") /\ args.data.t = "list")
        => /\ LengthInRange => ret = WithoutLengthRange
           /\ ~LengthInRange
                 => /\ ret.exc # "none"
                    /\ ret.sub = <<>>
                    /\ args.path # <<>>
                          => /\ ret.exc = "ValidationError"
                             /\ ret.expected = "list"
                             /\ ret.msg[1] \in
                                   {"List length is less than minimum required",
                                    "List length is greater than maximum allowed"}
           /\ (args.schema = LengthExample
                   /\ args.data \in {IntList(0), IntList(3), IntList(4)})
                 => (ret = Ok <=> args.data = IntList(3))

\* The documented list of four elements is rejected for its length.
C11_Witness ==
    /\ AnyCall("list")
    /\ args.schema = LengthExample
    /\ args.data = IntList(4)
    /\ ret.exc = "ValidationError"
    /\ ret.msg[1] = "List length is greater than maximum allowed"

\* The path of a resolver call has no entry that decodes: it is absent from
\* the mapping the function reads, or its entry is malformed.
Undecodable ==
    CASE op = "get_mcdoc_schema" ->
            args.path \notin DOMAIN McdocSchemas \/ McdocSchemas[args.path].malformed
      [] op = "resolve_schema_reference" ->
            \/ args.path \notin DOMAIN McdocSchemas
            \/ McdocSchemas[args.path].malformed
      [] OTHER ->
            \/ args.path \notin DOMAIN McdocDispatchers
            \/ \E k \in DOMAIN McdocDispatchers[args.path] :
                  McdocDispatchers[args.path][k].malformed

(***************************************************************************)
(* C12: the resolvers fail soft.  For every path, one absent from the      *)
(* mapping included, get_mcdoc_schema and resolve_schema_reference return  *)
(* (Absent when the entry is absent or does not decode) and                *)
(* get_dispatcher_schema returns (an empty registry in that case); none of *)
(* the three raises.                                                       *)
(***************************************************************************)
C12_ResolversFailSoft ==
    /\ op \in {"get_mcdoc_schema", "resolve_schema_reference"}
          => /\ ret.raised = "none"
             /\ Undecodable => ret.value = Absent
    /\ op = "get_dispatcher_schema"
          => /\ ret.raised = "none"
             /\ Undecodable => ret.value = <<>>

(***************************************************************************)
(* C13: validating against a Reference whose path is missing from the      *)
(* schema collection, or against a Dispatcher whose registry path is       *)
(* missing, ends in a data validation error: neither success nor an        *)
(* exception of another class.                                             *)
(***************************************************************************)
C13_MissingPathIsValidationError ==
    /\ (LibCall("reference") /\ args.schema.path \notin DOMAIN McdocSchemas)
          => IsDataError(ret)
    /\ (LibCall("dispatcher") /\ args.schema.registry \notin DOMAIN McdocDispatchers)
          => IsDataError(ret)

\* The entries of the registry of the call that are well formed.
WellFormedEntries(registry) ==
    {k \in DOMAIN McdocDispatchers[registry] : ~McdocDispatchers[registry][k].malformed}

(***************************************************************************)
(* C14: one malformed entry does not prevent the use of the others: a      *)
(* malformed entry decodes to Absent, create_schemas still yields the      *)
(* schema of every other entry of the registry it loads, and               *)
(* get_dispatcher_schema still returns every well-formed entry of its      *)
(* registry.                                                               *)
(***************************************************************************)
C14_MalformedEntryIsIsolated ==
    /\ (op = "get_mcdoc_schema" /\ args.path \in DOMAIN McdocSchemas
            /\ McdocSchemas[args.path].malformed)
          => ret.raised = "none" /\ ret.value = Absent
    /\ op = "create_schemas"
          => /\ ret.raised = "none"
             /\ \A k \in WellFormedEntries(args.registry) :
                   /\ k \in DOMAIN ret.value
                   /\ ret.value[k] = McdocDispatchers[args.registry][k].schema
    /\ (op = "get_dispatcher_schema" /\ args.path \in DOMAIN McdocDispatchers)
          => /\ ret.raised = "none"
             /\ \A k \in WellFormedEntries(args.path) :
                   /\ k \in DOMAIN ret.value
                   /\ ret.value[k] = McdocDispatchers[args.path][k].schema

\* One step of a validator as its caches see it.
CacheStep ==
    /\ \A p \in ResolverPaths :
          /\ decodes'[p] <= 1
          /\ schema_cache[p] # None => schema_cache'[p] = schema_cache[p]
          /\ dispatcher_cache[p] # None => dispatcher_cache'[p] = dispatcher_cache[p]
    /\ (op' = "get_mcdoc_schema" /\ schema_cache[args'.path] # None)
          => ret' = schema_cache[args'.path][1]
    /\ (op' = "get_dispatcher_schema" /\ dispatcher_cache[args'.path] # None)
          => ret' = dispatcher_cache[args'.path][1]
    /\ (op' = "get_mcdoc_schema" /\ ret'.raised = "none")
          => schema_cache'[args'.path] = Some(ret')
    /\ (op' = "get_dispatcher_schema" /\ ret'.raised = "none")
          => dispatcher_cache'[args'.path] = Some(ret')

(***************************************************************************)
(* C15: after any sequence of get_mcdoc_schema and get_dispatcher_schema   *)
(* calls on one McdocValidator (those validate_data makes included), a     *)
(* path that has returned a result once returns that same decoded node on  *)
(* every later call, the entry of a path is decoded at most once, and a    *)
(* cache entry is never changed or removed once it is stored.              *)
(***************************************************************************)
C15_CacheIsStable == [][CacheStep]_vars

\* A second call on a path returned the node the first call stored, and the
\* entry was decoded once.
C15_Witness ==
    /\ op = "get_mcdoc_schema"
    /\ args.path = "ref:int"
    /\ args.hit
    /\ decodes[args.path] = 1
    /\ ret.value = IntSchema(None)
    /\ dispatcher_cache["reg:entity"] # None

(***************************************************************************)
(* C16: validate_data does not mutate the document: after the call, in     *)
(* either implementation and whatever its outcome, the document equals     *)
(* the document it was called with.                                        *)
(***************************************************************************)
C16_DocumentIsNotMutated ==
    /\ op \in {"lib", "plugin"} => doc = args.data
    /\ op = "validate_component" => doc = args.component

\* A struct was validated whose data holds a key named by a field, which the
\* field loop discards from remaining_keys, and the document still holds it.
C16_Witness ==
    /\ AnyCall("struct")
    /\ args.data.t = "dict"
    /\ ret = Ok
    /\ \E i \in 1..Len(args.schema.fields) :
          /\ args.schema.fields[i].kind = "pair"
          /\ ~args.schema.fields[i].key_is_schema
          /\ args.schema.fields[i].key \in DOMAIN args.data.dv
          /\ args.schema.fields[i].key \in DOMAIN doc.dv

(***************************************************************************)
(* C17: version pruning is total.  is_valid_with_attributes,               *)
(* StructSchema.prune_on_version and Schema.prune_on_version return a      *)
(* result without raising for every decoded node and every attribute       *)
(* list, whatever string a since/until string literal holds; a node whose  *)
(* check fails becomes Absent.                                             *)
(***************************************************************************)
C17_PruningIsTotal ==
    /\ op \in {"is_valid_with_attributes", "prune_on_version",
               "schema_prune_on_version"}
          => ret.raised = "none"
    /\ op = "schema_prune_on_version" => ret.value \in {args.root, Absent}

(***************************************************************************)
(* C18: a union with an empty member list fails for every data value and   *)
(* never returns success; on a caller's non-empty path the failure is a    *)
(* validation error tagged "union" without suberrors, in both              *)
(* implementations.                                                        *)
(***************************************************************************)
C18_EmptyUnionAlwaysFails ==
    (AnyCall("union") /\ args.schema.members = <<>>)
        => /\ ret.exc # "none"
           /\ (op = "plugin" \/ args.path # <<>>)
                 => /\ ret.exc \in ValidationErrorClasses
                    /\ ret.expected = "union"
                    /\ ret.sub = <<>>

\* The validator raised the error of the empty union for a value that every
\* scalar schema but one rejects.
C18_Witness ==
    /\ LibCall("union")
    /\ args.schema.members = <<>>
    /\ args.data = JInt(1)
    /\ ret.exc = "MissingValidationError"
    /\ ret.expected = "union"

(***************************************************************************)
(* C19: McdocValidator.validate_data returns normally or raises only       *)
(* ValidationError (or a subclass), ExceptionGroup or ValueError, for      *)
(* every data, every decoded schema and every path, the empty path with    *)
(* which a validation starts included: never TypeError, IndexError,        *)
(* KeyError or AttributeError.  validate_component, which catches the      *)
(* first two, then lets nothing but ValueError through.                    *)
(***************************************************************************)
C19_OnlyValidationExceptions ==
    /\ op = "lib"
          => ret.exc \in {"none", "ExceptionGroup", "ValueError"}
                            \cup ValidationErrorClasses
    /\ op = "validate_component" => ret.raised.exc \in {"none", "ValueError"}

\* Validation of the value under the key of named field i by the
\* implementation of the call.
FieldOutcomeOf(i) ==
    LET field == args.schema.fields[i] IN
    IF op = "lib" THEN FieldOutcome(i)
    ELSE PluginValidate(args.data.dv[field.key], field.type,
                        Append(args.path, JStr(field.key)), MaxDepth - 1)
\* The named fields that are present in the data.
PresentFields ==
    {i \in DOMAIN args.schema.fields :
        NamedField(i) /\ args.schema.fields[i].key \in DOMAIN args.data.dv}
\* The named fields that are required and missing.
MissingFields ==
    {i \in DOMAIN args.schema.fields :
        /\ NamedField(i)
        /\ args.schema.fields[i].key \notin DOMAIN args.data.dv
        /\ ~args.schema.fields[i].optional}
\* The named fields whose value is present and invalid.
InvalidFields == {i \in PresentFields : IsDataError(FieldOutcomeOf(i))}
\* The keys of the data that no Pair names.
UnnamedKeys == DOMAIN args.data.dv \ NamedKeys

(***************************************************************************)
(* C20: the key named by a Pair field is removed from the remaining keys   *)
(* whether or not its value validates: a named field that is present with  *)
(* an invalid value contributes exactly one error, and its key is neither  *)
(* reported as Unexpected nor validated against the Spread schema.  So the *)
(* struct error holds one suberror per failing named field and one per key *)
(* that no Pair names; stated for a struct without a Spread, or with one   *)
(* Spread and no unnamed key (nothing is left for the Spread).             *)
(***************************************************************************)
C20_NamedKeyAlwaysRemoved ==
    (/\ AnyCall("struct")
     /\ args.data.t = "dict"
     /\ args.path # <<>>
     /\ DistinctKeys
     /\ Cardinality(SpreadFields) <= 1
     /\ SpreadFields # {} => UnnamedKeys = {}
     /\ \A i \in PresentFields :
           FieldOutcomeOf(i).exc = "none" \/ IsDataError(FieldOutcomeOf(i))
     /\ InvalidFields # {})
        => /\ IsDataError(ret)
           /\ Len(ret.sub) = Cardinality(InvalidFields) + Cardinality(MissingFields)
                                 + Cardinality(UnnamedKeys)

\* Members of the call's union that are Absent (root is None).
AbsentMembers == {i \in DOMAIN args.schema.members : args.schema.members[i].kind = "none"}

\* No member of the call's union ends with an exception other than a
\* validation error.
MembersEndNormally ==
    \A i \in DOMAIN args.schema.members :
        MemberOutcome(i).exc = "none" \/ IsDataError(MemberOutcome(i))

(***************************************************************************)
(* C21: an Absent node validates every value, also as a member of a union: *)
(* a union that has an Absent member accepts every data value.  Stated for *)
(* a caller's non-empty path and members that end normally or with a       *)
(* validation error.                                                       *)
(***************************************************************************)
C21_AbsentMemberAcceptsAll ==
    /\ AnyCall("none") => ret = Ok
    /\ (/\ AnyCall("union")
        /\ Len(args.path) >= 2
        /\ AbsentMembers # {}
        /\ MembersEndNormally)
           => ret = Ok

\* The elements of the call's list whose runtime type is not the one the
\* array schema names: type(item) is int, type(item) is float.
RequiredType == IF args.schema.kind = "int_array" THEN "int" ELSE "float"
WrongElements == {i \in DOMAIN args.data.lv : args.data.lv[i].t # RequiredType}

(***************************************************************************)
(* C22: an IntArray accepts a list within its length range iff every       *)
(* element is an int, a FloatArray iff every element is a float (an int    *)
(* element is rejected); a list whose elements all have the required type  *)
(* validates, and otherwise the call raises one aggregated error with one  *)
(* element error for each element of the wrong type.  Stated for a         *)
(* caller's non-empty path.                                                *)
(***************************************************************************)
C22_ArrayElementsHaveExactType ==
    (/\ AnyCall("int_array") \/ AnyCall("float_array")
     /\ args.data.t = "list"
     /\ LengthInRange
     /\ args.path # <<>>)
        => /\ ret = Ok <=> WrongElements = {}
           /\ WrongElements # {}
                 => /\ IsDataError(ret)
                    /\ Len(ret.sub) = Cardinality(WrongElements)

\* Validation of element i of the call's list against the item schema, by
\* the implementation that was called.
ElementOutcome(i) ==
    IF op = "lib" THEN ItemOutcome(i)
    ELSE PluginValidate(args.data.lv[i], args.schema.item,
                        Append(args.path, JInt(i - 1)), MaxDepth - 1)
\* The outcomes of the elements that do not validate, in index order.
Fails(r) == r.exc # "none"
InvalidElements ==
    SelectSeq([i \in DOMAIN args.data.lv |-> ElementOutcome(i)], Fails)

(***************************************************************************)
(* C23: a list whose length is within range validates every element on its *)
(* own and does not stop at the first bad one: with k > 0 invalid elements *)
(* the call raises one aggregated list error whose suberrors are exactly   *)
(* the k element errors in increasing index order; a list whose length is  *)
(* out of range raises the length error, which has no suberrors.  Stated   *)
(* for a caller's non-empty path and an item schema without a definition   *)
(* error (no struct with two Spreads).                                     *)
(***************************************************************************)
C23_ListCollectsEveryElementError ==
    (/\ AnyCall("list")
     /\ args.data.t = "list"
     /\ args.path # <<>>
     /\ \A i \in DOMAIN args.data.lv : ElementOutcome(i).exc # "ValueError")
        => /\ (LengthInRange /\ InvalidElements # <<>>)
                 => /\ IsDataError(ret)
                    /\ ret.sub = InvalidElements
           /\ ~LengthInRange
                 => /\ IsDataError(ret)
                    /\ ret.sub = <<>>

\* Parallel index i of the call's dispatcher is a Dynamic index whose
\* accessor walk over the data fails: a key of it is absent from the data.
WalkFails(i) ==
    LET index == args.schema.parallel_indices[i] IN
    /\ index.kind = "dynamic"
    /\ ~PluginWalk(args.data, index.accessor, 1).found
\* The dispatcher of the call without the indices whose walk fails.
SucceedingIndices ==
    SelectSeq([i \in DOMAIN args.schema.parallel_indices |->
                  [index |-> args.schema.parallel_indices[i], fails |-> WalkFails(i)]],
              LAMBDA e : ~e.fails)
WithoutFailingIndices ==
    [args.schema EXCEPT !.parallel_indices =
        [i \in DOMAIN SucceedingIndices |-> SucceedingIndices[i].index]]

(***************************************************************************)
(* C24: a dispatcher evaluates its parallel indices in order and takes the *)
(* discriminant from the first index whose accessor walk over the data     *)
(* succeeds; an index whose accessor key is absent from the data is        *)
(* skipped without raising: the outcome of the call is the outcome without *)
(* the failing indices.  Stated for a call whose parent is the data        *)
(* itself, so that the walk reads the same dict either way.                *)
(***************************************************************************)
C24_FailingIndexIsSkipped ==
    (/\ LibCall("dispatcher")
     /\ args.data.t = "dict"
     /\ args.parent = args.data
     /\ args.path # <<>>
     /\ \E i \in DOMAIN args.schema.parallel_indices : WalkFails(i)
     /\ SucceedingIndices # <<>>)
        => ret = LibValidate(args.data, WithoutFailingIndices, args.path,
                             args.parent, MaxDepth)

\* The orders the fields of the call's struct can be written in.
FieldOrders(n) == {p \in [1..n -> 1..n] : \A i, j \in 1..n : p[i] = p[j] => i = j}
Permuted(fields, p) == [i \in DOMAIN fields |-> fields[p[i]]]
\* The same call on the struct with its fields in the order p.
OutcomePermuted(p) ==
    LET schema == [args.schema EXCEPT !.fields = Permuted(@, p)] IN
    IF op = "lib"
    THEN LibValidate(args.data, schema, args.path, args.parent, MaxDepth)
    ELSE PluginValidate(args.data, schema, args.path, MaxDepth)
\* What a caller learns from an outcome: acceptance, or the set of errors
\* reported; an exception that is no validation error reports none.
Verdict(r) ==
    IF r.exc = "none" THEN [accepted |-> TRUE, reported |-> FALSE, errors |-> {}]
    ELSE IF IsDataError(r)
    THEN [accepted |-> FALSE, reported |-> TRUE,
          errors |-> {r.sub[i] : i \in DOMAIN r.sub}]
    ELSE [accepted |-> FALSE, reported |-> FALSE, errors |-> {}]

(***************************************************************************)
(* C25: for a struct with at most one Spread, permuting the order of its   *)
(* fields changes neither whether the call accepts a given dict nor the    *)
(* set of errors it reports for it: in every order the call accepts, or    *)
(* raises the struct error with the same set of suberrors, or is left by   *)
(* an exception that is no validation error.                               *)
(***************************************************************************)
C25_FieldOrderIsIrrelevant ==
    (/\ AnyCall("struct")
     /\ args.data.t = "dict"
     /\ args.path # <<>>
     /\ Cardinality(SpreadFields) <= 1)
        => \A p \in FieldOrders(Len(args.schema.fields)) :
              Verdict(OutcomePermuted(p)) = Verdict(ret)

\* A struct whose two named fields both fail is validated with its fields
\* in the other order: the same errors come in another order.
C25_Witness ==
    /\ LibCall("struct")
    /\ args.data.t = "dict"
    /\ args.path # <<>>
    /\ Cardinality(SpreadFields) <= 1
    /\ DistinctKeys
    /\ Len(ret.sub) >= 2
    /\ \E p \in FieldOrders(Len(args.schema.fields)) :
          /\ OutcomePermuted(p).exc = "ValidationError"
          /\ OutcomePermuted(p).sub # ret.sub

\* The call's integer lies within the value range of its schema, each bound
\* counting only when present.
ValueInRange ==
    LET r == args.schema.value_range IN
    r = None \/ /\ (r[1].min = None \/ r[1].min[1] <= args.data.iv)
                /\ (r[1].max = None \/ args.data.iv <= r[1].max[1])
\* The error of the type check of the Int case, and the errors of its range
\* check, told apart by their messages.
IsTypeError(r) ==
    /\ r.exc = "ValidationError"
    /\ r.msg = IF op = "lib" THEN <<>> ELSE <<"Expected an integer">>
IsRangeError(r) ==
    /\ r.exc = "ValidationError"
    /\ r.msg # <<>>
    /\ r.msg[1] \in {"is less than minimum allowed", "is greater than maxinum allowed",
                     "value is less than minimum allowed",
                     "value is greater than maximum allowed"}

(***************************************************************************)
(* C26: an Int schema rejects every value that is not an integer with a    *)
(* type error; an integer is accepted iff min <= value <= max, both bounds *)
(* inclusive and each checked only when present, and an integer out of     *)
(* range is reported as a range violation, whose message differs from the  *)
(* type error.  Stated for a caller's non-empty path.                      *)
(***************************************************************************)
C26_IntTypeAndRange ==
    (AnyCall("int") /\ args.path # <<>>)
        => /\ args.data.t # "int" => IsTypeError(ret)
           /\ args.data.t = "int"
                 => /\ ret = Ok <=> ValueInRange
                    /\ ~ValueInRange => IsRangeError(ret) /\ ~IsTypeError(ret)

(***************************************************************************)
(* C28: validate_data terminates for every finite document when each      *)
(* cycle of schema references passes through a struct field or a list      *)
(* item: validating a document of the model against the self-referential   *)
(* tree schema ends, normally or with an error, within the nesting of the  *)
(* document, and never exhausts the call stack.                            *)
(***************************************************************************)
C28_CyclesThroughFieldsTerminate ==
    (/\ LibCall("reference")
     /\ args.schema.path = "ref:tree"
     /\ args.path # <<>>)
        => ret.exc # "RecursionError"

\* The node the body computes for a path of the corpus when it runs alone:
\* decoded and pruned, or the dummy for a malformed entry.
CompleteNode(method, path) ==
    LET entry == VersionedCorpus[method][path] IN
    IF \E k \in DOMAIN entry : entry[k].malformed THEN NodeOf(DummyEntry)
    ELSE NodeOf(PrunedEntry(DecodedEntry(entry)))

(***************************************************************************)
(* C27: when several calls share one McdocValidator and resolve the same   *)
(* path concurrently, every caller that is handed a node is handed the     *)
(* completely decoded and pruned node of that path, so all callers receive *)
(* equal nodes; the cache never holds a partially constructed entry, and   *)
(* an entry computed again is stored as the same node.                     *)
(***************************************************************************)
C27_CallersReceiveCompleteNodes ==
    /\ \A t \in Threads :
          (callers[t].pc = "done" /\ callers[t].raised = "none")
              => callers[t].result = CompleteNode(callers[t].method, callers[t].path)
    /\ \A method \in Methods, path \in SharedPaths :
          Memoized(memo[method], path)
              => memo[method][path][1] = CompleteNode(method, path)

\* Two threads have both computed the node of an entry that pruning
\* removes, and both hold it.
C27_Witness ==
    \E t, u \in Threads :
        /\ t # u
        /\ callers[t].pc = "done" /\ callers[u].pc = "done"
        /\ callers[t].path = "ref:old" /\ callers[u].path = "ref:old"
        /\ callers[t].method = "get_mcdoc_schema"
        /\ callers[u].method = "get_mcdoc_schema"
        /\ ~callers[t].hit /\ ~callers[u].hit
        /\ callers[t].result = callers[u].result
        /\ callers[t].result["root"] = Absent

\* All errors of an outcome: the error raised and, recursively, its suberrors.
RECURSIVE ErrorsIn(_)
ErrorsIn(r) ==
    IF r.exc = "none" THEN {}
    ELSE {r} \cup UNION {ErrorsIn(r.sub[i]) : i \in DOMAIN r.sub}
\* The error was created without suberrors and so holds the default list:
\* an aggregated error is created with a list that is not empty, and
\* UnexpectedValidationError passes a list of its own.
HoldsDefault(e) ==
    e.exc \in {"ValidationError", "MissingValidationError"} /\ e.sub = <<>>
\* What e.suberrors shows to a reader of the error.
SuberrorsOf(e) == IF HoldsDefault(e) THEN default_suberrors ELSE e.sub

(***************************************************************************)
(* C29: after any sequence of validate_data calls, every error created     *)
(* without explicit suberrors has an empty suberrors list: no call appends *)
(* to the default list such errors share, so the errors of one call never  *)
(* show up beneath the errors of another.                                  *)
(***************************************************************************)
C29_DefaultSuberrorsStayEmpty ==
    /\ default_suberrors = <<>>
    /\ op = "lib" => \A e \in ErrorsIn(ret) : HoldsDefault(e) => SuberrorsOf(e) = <<>>

\* On a validator that has resolved a reference in an earlier call, a
\* dispatched struct reports two errors that hold the default list.
C29_Witness ==
    /\ LibCall("dispatcher")
    /\ Memoized(schema_cache, "ref:int")
    /\ ret.exc = "ValidationError"
    /\ Len(ret.sub) >= 2
    /\ \A i \in DOMAIN ret.sub : HoldsDefault(ret.sub[i])
    /\ default_suberrors = <<>>

\* A step from a class whose first access has completed: the access
\* returns the cached mapping and runs nothing again.
CachedAccess ==
    (item_class.defined /\ item_class._components # <<>>)
        => /\ item_class'._components = item_class._components
           /\ item_class'.returned = Some(item_class._components)
           /\ item_class'.raised = "none"
           /\ item_class'.resolutions = item_class.resolutions
           /\ item_class'.validations = item_class.validations
           /\ item_class'.displays = item_class.displays
           /\ item_class'._component_cache = item_class._component_cache
\* The errors of an item have been displayed at most once.
DisplayedOnce == item_class'.defined => item_class'.displays <= 1

(***************************************************************************)
(* C30: the components of an item are resolved once: after the first       *)
(* access has completed, every later access returns the same cached        *)
(* mapping and runs neither the custom components nor the schema           *)
(* validation again, so the errors of an item are computed and displayed   *)
(* at most once.                                                           *)
(***************************************************************************)
C30_ComponentsResolvedOnce == [][CachedAccess /\ DisplayedOnce]_vars

\* An item with an invalid component has been read twice: resolved once,
\* its errors displayed once.
C30_Witness ==
    /\ item_class.defined
    /\ item_class.accesses >= 2
    /\ item_class.resolutions = 1
    /\ item_class.validations = 1
    /\ item_class.displays = 1
    /\ item_class.returned = Some(item_class._components)

====
